---- MODULE Spec2Model ----
(***************************************************************************)
(* A model of the mssql_client crate: the named-parameter rewriters        *)
(* (utils::replace_params and the regex rewriters of replace_sql_params!   *)
(* and query_sql!), the command facade of Connection and Transaction with  *)
(* the map_result_exhaust stream adapter, connection establishment        *)
(* through the process-wide gate of conn_arch, the parameter encoders, the *)
(* row decoders and the datasource resolver of adjust_conn_str.            *)
(*                                                                         *)
(* A text is a sequence of one-character strings.  Offsets are 1-based:    *)
(* the Rust byte offset k of an ASCII text is the position k + 1 here.     *)
(***************************************************************************)
EXTENDS Integers, Sequences, FiniteSets, TLC

VARIABLES
    \* ---- the rewriters -------------------------------------------------
    mode,        \* "scan": replace_params chain; "regex": macro rewriter;
                 \* "splice": one replace_params call with any replacement
    orig,        \* the SQL text as the caller wrote it
    sql,         \* the SQL text after the bindings applied so far
    names,       \* the bound names applied so far, in binding order
    vals,        \* the value of each binding, in binding order
    driverCall,  \* what query_params handed to the driver, or NoCall
    \* ---- the command facade of one physical connection -------------------
    handles,     \* the handles the caller owns for the physical connection
    ops,         \* the operations in flight on the physical connection
    stream,      \* the events the driver's row stream has yet to deliver
    driverRows,  \* the events of the driver's row stream as the query started it
    err,         \* MapResultExhaust.err
    items,       \* the rows Collect has accumulated so far
    convCalls,   \* the rows the conversion function was invoked on
    outcome,     \* how the last operation's future completed
    \* ---- connection establishment ----------------------------------------
    platform,    \* which conn_arch the build holds: "windows" or "other"
    pc,          \* each caller's position in Connection::from_env / connect
    input,       \* each caller's entry point, environment and connection string
    gateOwner,   \* the caller holding GATE, or NoOwner
    connResult,  \* what each caller's connect future completed with
    \* ---- the parameter encoders ------------------------------------------
    encIn,       \* the host value and the encoder API of the last encoding
    encOut,      \* the output list `out: &mut Vec<Parameter>`
    \* ---- the row decoders -------------------------------------------------
    row,         \* the columns of the row being decoded
    getCalls,    \* the column indices decoded so far, in call order
    decoded,     \* the result of the last decoding
    uuid,        \* the Uuid a caller binds as a parameter, once it has
    guid,        \* the Guid bytes on the wire, once the Uuid is encoded
    \* ---- the datasource resolver ------------------------------------------
    connIn,      \* the connection string (or datasource) being normalised
    dns,         \* what the hostname lookup answers
    lookups,     \* the host names looked up so far
    resolved     \* the result of the normalisation

rewriteVars == <<mode, orig, sql, names, vals, driverCall>>
facadeVars  == <<handles, ops, stream, driverRows, err, items, convCalls, outcome>>
connectVars == <<platform, pc, input, gateOwner, connResult>>
encodeVars  == <<encIn, encOut>>
decodeVars  == <<row, getCalls, decoded, uuid, guid>>
resolveVars == <<connIn, dns, lookups, resolved>>
codecVars   == <<encodeVars, decodeVars, resolveVars>>
vars == <<mode, orig, sql, names, vals, driverCall,
          handles, ops, stream, driverRows, err, items, convCalls, outcome,
          platform, pc, input, gateOwner, connResult,
          encIn, encOut, row, getCalls, decoded, uuid, guid,
          connIn, dns, lookups, resolved>>

(***************************************************************************)
(* Bounds of the model.                                                    *)
(***************************************************************************)
MaxFrags    == 3   \* an SQL text is the concatenation of at most MaxFrags fragments
MaxBindings == 2   \* bindings applied to one statement
MaxRows     == 3   \* rows of one result stream
NCallers    == 2   \* concurrent callers of Connection::connect / from_env
MaxEncodings == 2  \* values encoded into one parameter list
MaxCols     == 2   \* columns of a row (besides a few wider rows)
MaxAddrs    == 2   \* addresses in the answer of one hostname lookup

(***************************************************************************)
(* Characters and their classes (char::is_whitespace,                      *)
(* char::is_ascii_punctuation, char::is_alphanumeric, str::to_lowercase).  *)
(***************************************************************************)
IsWhitespace(c) == c = " "

IsAsciiPunctuation(c) == c \in {"@", "_", ","}

IsAlphanumeric(c) == c \in {"p", "P", "x", "1", "2", "3", "4", "5", "6", "7", "8", "9", "0"}

ToLowerChar(c) ==
    IF c = "P" THEN "p" ELSE IF c = "T" THEN "t" ELSE IF c = "C" THEN "c" ELSE c

ToLowercase(s) == [i \in 1..Len(s) |-> ToLowerChar(s[i])]

\* The regex crate's \w restricted to the model's characters.
IsWordChar(c) == IsAlphanumeric(c) \/ c = "_"

DigitChar == <<"0", "1", "2", "3", "4", "5", "6", "7", "8", "9">>

\* format!("{}", n) of a natural number: its decimal digits.
RECURSIVE FormatNat(_)
FormatNat(n) ==
    IF n < 10 THEN <<DigitChar[n + 1]>>
    ELSE FormatNat(n \div 10) \o <<DigitChar[(n % 10) + 1]>>

(***************************************************************************)
(* utils::replace_params: a single left-to-right scan with the states      *)
(* None, Other and Param(start) that records the span of every name equal  *)
(* to `param`, then splices `replace` into the spans from the last to the  *)
(* first.  A span <<lo, hi>> holds the positions lo..hi of the name.       *)
(***************************************************************************)
\* A comparison by str::starts_with instead of ==.
ParamMatchesPrefix(text, lo, hi, param) ==
    /\ hi - lo + 1 >= Len(param)
    /\ ToLowercase(SubSeq(text, lo, lo + Len(param) - 1)) = param

\* sql[start..index].to_lowercase() == param
ParamMatches(text, lo, hi, param) == ToLowercase(SubSeq(text, lo, hi)) = param

\* One iteration of `for (index, c) in sql.char_indices()`.
ScanChar(text, param, i, s) ==
    LET c == text[i] IN
    CASE s.st = "None" ->
            IF c = "@" THEN [s EXCEPT !.st = "Param", !.start = i + 1]
            ELSE IF ~IsWhitespace(c) /\ ~IsAsciiPunctuation(c)
                 THEN [s EXCEPT !.st = "Other"]
                 ELSE s
      [] s.st = "Param" ->
            IF (IsWhitespace(c) \/ IsAsciiPunctuation(c)) /\ c # "@" /\ c # "_"
            THEN [s EXCEPT !.st = "None",
                           !.vec = IF ParamMatches(text, s.start, i - 1, param)
                                   THEN Append(s.vec, <<s.start, i - 1>>)
                                   ELSE s.vec]
            ELSE IF ~IsAlphanumeric(c) /\ c # "_"
                 THEN [s EXCEPT !.st = "Other"]
                 ELSE s
      [] s.st = "Other" ->
            IF IsWhitespace(c) \/ IsAsciiPunctuation(c)
            THEN [s EXCEPT !.st = "None"]
            ELSE s

RECURSIVE ScanFrom(_, _, _, _)
ScanFrom(text, param, i, s) ==
    IF i > Len(text) THEN s
    ELSE ScanFrom(text, param, i + 1, ScanChar(text, param, i, s))

\* The spans recorded by the loop and by the `match state` after it.
ScanSpans(text, param) ==
    LET s == ScanFrom(text, param, 1, [st |-> "None", start |-> 0, vec |-> <<>>]) IN
    IF s.st = "Param" /\ ParamMatches(text, s.start, Len(text), param)
    THEN Append(s.vec, <<s.start, Len(text)>>)
    ELSE s.vec

\* String::replace_range(lo..hi + 1, r)
ReplaceRange(text, lo, hi, r) ==
    SubSeq(text, 1, lo - 1) \o r \o SubSeq(text, hi + 1, Len(text))

\* The spans applied from the first to the last, each at its recorded
\* offsets (clipped to the text), k spans still to apply.
RECURSIVE ApplySpansFwd(_, _, _, _)
ApplySpansFwd(text, vec, k, replace) ==
    IF k = 0 THEN text
    ELSE LET r == vec[Len(vec) - k + 1]
             lo == IF r[1] > Len(text) + 1 THEN Len(text) + 1 ELSE r[1]
             hi == IF r[2] > Len(text) THEN Len(text) ELSE r[2]
         IN ApplySpansFwd(SubSeq(text, 1, lo - 1) \o replace \o SubSeq(text, hi + 1, Len(text)),
                          vec, k - 1, replace)

\* `for r in vec.into_iter().rev() { sql.replace_range(r, replace) }`,
\* k spans still to apply.
RECURSIVE ApplySpansRev(_, _, _, _)
ApplySpansRev(text, vec, k, replace) ==
    IF k = 0 THEN text
    ELSE ApplySpansRev(ReplaceRange(text, vec[k][1], vec[k][2], replace),
                       vec, k - 1, replace)

replace_params(text, param, replace) ==
    LET vec == ScanSpans(text, param) IN ApplySpansRev(text, vec, Len(vec), replace)

(***************************************************************************)
(* The macro rewriters: Regex::new("\B@<name>\b").replace_all(q, "@P<i>").  *)
(***************************************************************************)
IsWordAt(text, i) == i >= 1 /\ i <= Len(text) /\ IsWordChar(text[i])

\* \b between the characters i - 1 and i (the ends of the text count as non-word).
WordBoundary(text, i) == IsWordAt(text, i - 1) # IsWordAt(text, i)

\* The pattern \B@name\b matches at position i.
RegexMatchAt(text, name, i) ==
    /\ i + Len(name) <= Len(text)
    /\ ~WordBoundary(text, i)
    /\ text[i] = "@"
    /\ SubSeq(text, i + 1, i + Len(name)) = name
    /\ WordBoundary(text, i + Len(name) + 1)

\* replace_all: the non-overlapping matches from the left, each replaced.
RECURSIVE RegexReplaceFrom(_, _, _, _)
RegexReplaceFrom(text, name, repl, i) ==
    IF i > Len(text) THEN <<>>
    ELSE IF RegexMatchAt(text, name, i)
         THEN repl \o RegexReplaceFrom(text, name, repl, i + 1 + Len(name))
         ELSE <<text[i]>> \o RegexReplaceFrom(text, name, repl, i + 1)

regex_replace_all(text, name, repl) == RegexReplaceFrom(text, name, repl, 1)

\* format!("@P{}", i)
RegexMarker(i) == <<"@", "P">> \o FormatNat(i)

\* The replacement of binding i in a replace_params chain: the marker pN
\* without the '@', which the recorded span leaves in place.
ScanMarker(i) == <<"p">> \o FormatNat(i)

(***************************************************************************)
(* The parameter encoder as far as the rewriters' callers use it: an i32   *)
(* value pushes one I32 parameter, a tuple pushes its components from the  *)
(* left to the right.                                                      *)
(***************************************************************************)
Some(v) == <<v>>

None == <<>>

I32Params(v, out) == Append(out, [variant |-> "I32", value |-> Some(v)])

RECURSIVE TupleParams(_, _, _)
TupleParams(vs, i, out) ==
    IF i > Len(vs) THEN out
    ELSE TupleParams(vs, i + 1, I32Params(vs[i], out))

(***************************************************************************)
(* Host values.  A host type is a scalar type, Option<T>, Vec<T> or a      *)
(* tuple of types; a host value carries its type, its payload (a sequence  *)
(* of whole numbers: one number, the (unscaled value, scale) of a Decimal, *)
(* the (mantissa, binary exponent) of a float, the 16 bytes of a Uuid) and *)
(* its parts.                                                              *)
(***************************************************************************)
ScalarTypes == {"bool", "Decimal", "f32", "f64", "i16", "i32", "i64",
                "NaiveDate", "NaiveDateTime", "String", "&str", "Uuid"}

ScalarTy(t)  == [kind |-> "scalar", ty |-> t, parts |-> <<>>]
OptionTy(T)  == [kind |-> "option", ty |-> "", parts |-> <<T>>]
VecTy(T)     == [kind |-> "vec", ty |-> "", parts |-> <<T>>]
TupleTy(Ts)  == [kind |-> "tuple", ty |-> "", parts |-> Ts]
RawTy        == [kind |-> "raw", ty |-> "Parameter", parts |-> <<>>]

Scalar(t, v)  == [kind |-> "scalar", ty |-> ScalarTy(t), val |-> v, parts |-> <<>>]
SomeOf(x)     == [kind |-> "some", ty |-> OptionTy(x.ty), val |-> <<>>, parts |-> <<x>>]
NoneOf(T)     == [kind |-> "none", ty |-> OptionTy(T), val |-> <<>>, parts |-> <<>>]
VecOf(T, xs)  == [kind |-> "vec", ty |-> VecTy(T), val |-> <<>>, parts |-> xs]
TupleOf(xs)   == [kind |-> "tuple", ty |-> TupleTy([i \in 1..Len(xs) |-> xs[i].ty]),
                  val |-> <<>>, parts |-> xs]
\* A raw Parameter: the one the scalar x is encoded into.
Raw(x)        == [kind |-> "raw", ty |-> RawTy, val |-> <<>>, parts |-> <<x>>]

(***************************************************************************)
(* The byte order of a unique identifier: to_guid of parameter.rs writes   *)
(* the bytes b[3], b[2], b[1], b[0], b[5], b[4], b[7], b[6], b[8] .. b[15] *)
(* of the Uuid (Rust index k is position k + 1 here).                      *)
(***************************************************************************)
\* The first three groups left in host order.
to_guid_unswapped(b) == b

to_guid(b) ==
    << b[4], b[3], b[2], b[1], b[6], b[5], b[8], b[7],
       b[9], b[10], b[11], b[12], b[13], b[14], b[15], b[16] >>

(***************************************************************************)
(* The encoder of params.rs: Params::params appends the parameters of a    *)
(* value to `out`, Params::params_null those of an absent value of a type. *)
(***************************************************************************)
\* The variant each scalar impl pushes.
ParamsVariant(t) ==
    CASE t = "bool" -> "Bool"
      [] t = "Decimal" -> "F64"
      [] t = "f32" -> "F32"
      [] t = "f64" -> "F64"
      [] t = "i16" -> "I16"
      [] t = "i32" -> "I32"
      [] t = "i64" -> "I64"
      [] t = "NaiveDate" -> "Date"
      [] t = "NaiveDateTime" -> "DateTime"
      [] t \in {"String", "&str"} -> "String"
      [] t = "Uuid" -> "Uuid"

\* `self.into()` of a Decimal: the f64 (mantissa, binary exponent) of
\* unscaled / 10^scale, for the decimals of this model (whole numbers and
\* halves, which f64 holds exactly).
RECURSIVE NormalizeF64(_, _)
NormalizeF64(m, e) ==
    IF m = 0 THEN <<0, 0>>
    ELSE IF m % 2 = 0 THEN NormalizeF64(m \div 2, e + 1)
    ELSE <<m, e>>

DecimalIntoF64(d) ==
    IF d[2] = 0 THEN NormalizeF64(d[1], 0)
    ELSE NormalizeF64(d[1] \div 5, 0 - 1)

\* The payload a scalar impl wraps in Some.
ParamsPayload(t, v) ==
    CASE t = "Decimal" -> DecimalIntoF64(v)
      [] t = "Uuid" -> to_guid(v)
      [] OTHER -> v

ScalarParams(x, out) ==
    IF x.ty.ty = "i32" THEN I32Params(x.val, out)
    ELSE Append(out, [variant |-> ParamsVariant(x.ty.ty),
                      value |-> Some(ParamsPayload(x.ty.ty, x.val))])

ScalarParamsNull(t, out) == Append(out, [variant |-> ParamsVariant(t), value |-> None])

RECURSIVE ParamsNull(_, _)
RECURSIVE ParamsNullEach(_, _, _)
ParamsNull(T, out) ==
    CASE T.kind = "scalar" -> ScalarParamsNull(T.ty, out)
      [] T.kind = "option" -> ParamsNull(T.parts[1], out)
      [] T.kind = "vec" -> out
      [] T.kind = "raw" -> out
      [] T.kind = "tuple" -> ParamsNullEach(T.parts, 1, out)

ParamsNullEach(Ts, i, out) ==
    IF i > Len(Ts) THEN out
    ELSE ParamsNullEach(Ts, i + 1, ParamsNull(Ts[i], out))

RECURSIVE Params(_, _)
RECURSIVE ParamsEach(_, _, _)
\* The parts encoded from the last to the first.
RECURSIVE ParamsEachReversed(_, _, _)
ParamsEachReversed(xs, i, out) ==
    IF i > Len(xs) THEN out
    ELSE Params(xs[i], ParamsEachReversed(xs, i + 1, out))

\* `self.0.params(out); self.1.params(out); ...` of a tuple and
\* `self.into_iter().for_each(|v| v.params(out))` of a Vec.
ParamsEach(xs, i, out) ==
    IF i > Len(xs) THEN out
    ELSE ParamsEach(xs, i + 1, Params(xs[i], out))

Params(x, out) ==
    CASE x.kind = "scalar" -> ScalarParams(x, out)
      [] x.kind = "some" -> Params(x.parts[1], out)
      [] x.kind = "none" -> ParamsNull(x.ty.parts[1], out)
      [] x.kind = "vec" -> ParamsEach(x.parts, 1, out)
      [] x.kind = "raw" -> Append(out, ScalarParams(x.parts[1], <<>>)[1])
      [] x.kind = "tuple" -> ParamsEach(x.parts, 1, out)

(***************************************************************************)
(* The encoder of parameter.rs: ToParameter::to_parameter gives one        *)
(* Parameter, and From<&Parameter> for &ToSql the value bound on the wire. *)
(***************************************************************************)
ToParameterVariant(t) ==
    CASE t = "bool" -> "Bool"
      [] t = "Decimal" -> "F64"
      [] t = "f32" -> "F32"
      [] t = "f64" -> "F64"
      [] t = "i16" -> "I16"
      [] t = "i32" -> "I32"
      [] t = "i64" -> "I64"
      [] t = "NaiveDate" -> "Date"
      [] t = "NaiveDateTime" -> "DateTime"
      [] t \in {"String", "&str"} -> "String"
      [] t = "Uuid" -> "Uuid"

RECURSIVE to_parameter(_)
to_parameter(x) ==
    CASE x.kind = "scalar" ->
            [variant |-> ToParameterVariant(x.ty.ty),
             value |-> Some(ParamsPayload(x.ty.ty, x.val))]
      [] x.kind = "some" -> to_parameter(x.parts[1])
      [] x.kind = "none" -> [variant |-> "Null", value |-> None]

\* The Rust type of the ToSql value a Parameter is bound as; Parameter::Null
\* is bound as NULL_I32, an Option<i32>.
ToSqlType(p) ==
    CASE p.variant = "Bool" -> "bool"
      [] p.variant = "Date" -> "NaiveDate"
      [] p.variant = "DateTime" -> "NaiveDateTime"
      [] p.variant = "F32" -> "f32"
      [] p.variant = "F64" -> "f64"
      [] p.variant = "I16" -> "i16"
      [] p.variant = "I32" -> "i32"
      [] p.variant = "I64" -> "i64"
      [] p.variant = "Null" -> "i32"
      [] p.variant \in {"String", "StringCow"} -> "str"
      [] p.variant = "Uuid" -> "Guid"

(***************************************************************************)
(* The values the callers encode, and the two entry points: params, as     *)
(* execute_params and query_params_with call it on the list `p`, and       *)
(* to_parameter, as the macros of execute_sql.rs and sql_query.rs bind a   *)
(* field (`&field as &ToParameter`).                                       *)
(***************************************************************************)
Bytes16 == <<1, 2, 3, 4, 5, 6, 7, 8, 9, 10, 11, 12, 13, 14, 15, 16>>

ScalarValues ==
    { Scalar("bool", <<1>>),
      Scalar("Decimal", <<15, 1>>), Scalar("Decimal", <<3, 0>>),
      Scalar("f32", <<3, 0 - 1>>), Scalar("f64", <<3, 0 - 1>>),
      Scalar("i16", <<7>>), Scalar("i32", <<7>>), Scalar("i32", <<10>>),
      Scalar("i64", <<7>>),
      Scalar("NaiveDate", <<20000101>>),
      Scalar("NaiveDateTime", <<20000101, 121001>>),
      Scalar("String", <<116, 50>>), Scalar("&str", <<116, 50>>),
      Scalar("&str", <<>>),
      Scalar("Uuid", Bytes16) }

OptionValues ==
    { SomeOf(x) : x \in ScalarValues } \cup { NoneOf(ScalarTy(t)) : t \in ScalarTypes }

I32(v) == Scalar("i32", <<v>>)

CompoundValues ==
    { TupleOf(<<>>),
      VecOf(ScalarTy("i32"), <<>>),
      VecOf(ScalarTy("i32"), <<I32(2), I32(3)>>),
      VecOf(ScalarTy("i32"), <<I32(3), I32(2), I32(4)>>),
      VecOf(OptionTy(ScalarTy("i32")), <<SomeOf(I32(2)), NoneOf(ScalarTy("i32"))>>),
      NoneOf(VecTy(ScalarTy("i32"))),
      NoneOf(OptionTy(ScalarTy("i64"))),
      NoneOf(TupleTy(<<ScalarTy("i32"), ScalarTy("&str")>>)),
      TupleOf(<<I32(10)>>),
      TupleOf(<<I32(10), Scalar("&str", <<116, 50>>)>>),
      TupleOf(<<Scalar("&str", <<116, 50>>), I32(10)>>),
      TupleOf(<<I32(10), NoneOf(ScalarTy("String")), Scalar("NaiveDate", <<20000101>>)>>),
      TupleOf(<<TupleOf(<<I32(1), I32(2)>>), Scalar("i64", <<7>>)>>),
      TupleOf(<<VecOf(ScalarTy("i32"), <<I32(2), I32(3)>>), I32(1)>>),
      TupleOf(<<I32(1), VecOf(ScalarTy("i32"), <<I32(2), I32(3)>>)>>),
      TupleOf(<<I32(1), I32(2), I32(3), I32(4), I32(5)>>),
      Raw(I32(10)),
      SomeOf(Raw(I32(10))),
      NoneOf(RawTy),
      TupleOf(<<NoneOf(RawTy), I32(20)>>),
      TupleOf(<<SomeOf(Raw(I32(10))), I32(20)>>),
      SomeOf(TupleOf(<<>>)),
      NoneOf(TupleTy(<<>>)),
      SomeOf(TupleOf(<<I32(10), Scalar("&str", <<116, 50>>)>>)),
      SomeOf(SomeOf(Scalar("i64", <<7>>))) }

HostValues == ScalarValues \cup OptionValues \cup CompoundValues

NoEncoding == [api |-> "none", value |-> TupleOf(<<>>), n |-> 0]

\* `params.params(&mut p)`: the parameters of x are appended to the list.
ParamsCall(x) ==
    /\ encIn.api \in {"none", "Params"}
    /\ encIn.n < MaxEncodings
    /\ encIn' = [api |-> "Params", value |-> x, n |-> encIn.n + 1]
    /\ encOut' = Params(x, encOut)
    /\ UNCHANGED <<rewriteVars, facadeVars, connectVars, decodeVars, resolveVars>>

\* `x.to_parameter()`: one Parameter for one bound field.
ToParameterCall(x) ==
    /\ encIn.api \in {"none", "ToParameter"}
    /\ encIn.n < MaxEncodings
    /\ encIn' = [api |-> "ToParameter", value |-> x, n |-> encIn.n + 1]
    /\ encOut' = <<to_parameter(x)>>
    /\ UNCHANGED <<rewriteVars, facadeVars, connectVars, decodeVars, resolveVars>>

(***************************************************************************)
(* The row decoders.  A column holds the server's declared type name and   *)
(* the driver's column data: its variant ("None" for SQL NULL) and its     *)
(* payload.  The unscaled value of a Numeric is an i128, written here as   *)
(* eight 16-bit limbs, least significant first, followed by the scale; a   *)
(* decoded Decimal is written the same way.                                 *)
(***************************************************************************)
LimbMax == 65535

LimbSign == 32768

Col(ty, variant, val) == [ty |-> ty, variant |-> variant, val |-> val]

\* The column data variant the driver converts into the driver type of a
\* host scalar type.
DriverVariant(t) ==
    CASE t = "bool" -> "Bit"
      [] t = "i32" -> "I32"
      [] t \in {"&str", "String"} -> "String"
      [] t = "Decimal" -> "Numeric"
      [] t = "Uuid" -> "Guid"

ScalarOf(T) == IF T.kind = "option" THEN T.parts[1].ty ELSE T.ty

\* `row.0.try_get(idx)`, by the three outcomes the decoders match on:
\* Ok(None) past the last column, Err(e) when the data is not of the
\* requested type (NULL requested as a type that is not an Option
\* included), Ok(Some(v)) otherwise.
try_get(r, T, idx) ==
    IF idx >= Len(r) THEN [r |-> "OkNone", null |-> FALSE, val |-> <<>>]
    ELSE LET c == r[idx + 1] IN
         IF c.variant = "None"
         THEN IF T.kind = "option"
              THEN [r |-> "OkSome", null |-> TRUE, val |-> <<>>]
              ELSE [r |-> "Err", null |-> FALSE, val |-> <<>>]
         ELSE IF c.variant = DriverVariant(ScalarOf(T))
              THEN [r |-> "OkSome", null |-> FALSE, val |-> c.val]
              ELSE [r |-> "Err", null |-> FALSE, val |-> <<>>]

Ok(v) == [ok |-> TRUE, val |-> v, err |-> "none", idx |-> 0]

Err(kind, idx) == [ok |-> FALSE, val |-> TupleOf(<<>>), err |-> kind, idx |-> idx]

\* The accepted server type names of each host type (sql_value!).
check_db_ty(T, v) ==
    LET t == ScalarOf(T) IN
    CASE t = "bool" -> v = "bit"
      [] t = "i32" -> v = "int"
      [] t \in {"&str", "String"} ->
            v \in {"nvarchar", "varchar", "ntext", "text", "nchar", "char"}
      [] t = "Decimal" -> v \in {"decimal", "numeric"}
      [] t = "Uuid" -> v = "uniqueidentifier"

is_nullable(T) == T.kind = "option"

guid_to_uuid(b) ==
    << b[4], b[3], b[2], b[1], b[6], b[5], b[8], b[7],
       b[9], b[10], b[11], b[12], b[13], b[14], b[15], b[16] >>

to_uuid(b) ==
    << b[4], b[3], b[2], b[1], b[6], b[5], b[8], b[7],
       b[9], b[10], b[11], b[12], b[13], b[14], b[15], b[16] >>

\* `Decimal::new_with_scale(n.value(), n.scale())`: the i128 as it is.
numeric_to_decimal(n) == n

\* `n.value() as i64`: the low 64 bits of the i128, then widened again with
\* the sign of the i64 by Decimal::new_with_scale.
AsI64(n) ==
    LET ext == IF n[4] >= LimbSign THEN LimbMax ELSE 0
    IN << n[1], n[2], n[3], n[4], ext, ext, ext, ext, n[9] >>

\* The conversion `$e` of sql_value!.
SqlValueConv(t, v) ==
    CASE t = "Decimal" -> numeric_to_decimal(v)
      [] t = "Uuid" -> guid_to_uuid(v)
      [] OTHER -> v

\* SqlValue::from_row of $t and of Option<$t>, with `read`.
from_row(r, T, idx) ==
    LET g == try_get(r, T, idx)
        t == ScalarOf(T)
    IN CASE g.r = "OkNone" -> Err("FieldNotFound", idx)
         [] g.r = "Err" -> Err("TiberiusField", idx)
         [] OTHER ->
              IF T.kind = "option"
              THEN IF g.null THEN Ok(NoneOf(T.parts[1]))
                   ELSE Ok(SomeOf(Scalar(t, SqlValueConv(t, g.val))))
              ELSE Ok(Scalar(t, SqlValueConv(t, g.val)))

\* `R::from_column(v)` of Row::get, for the types that are their own
\* SqlValue: the value as decoded.
FromColumnValue(res) == res

\* Row::get: SqlValue::from_row, and its error as it is.
RowGet(r, T, idx) ==
    LET res == from_row(r, T, idx)
    IN IF res.ok THEN FromColumnValue(res) ELSE res

\* The conversion of FromColumn::from_column of from_column.rs.
FromColumnConv(t, v) ==
    CASE t = "Decimal" -> AsI64(v)
      [] t = "Uuid" -> to_uuid(v)
      [] OTHER -> v

\* FromColumnOpt of &str and String: `Some(s) if s.is_empty() => None`.
FromColumnOptText(t, v) ==
    IF v = <<>> THEN NoneOf(ScalarTy(t)) ELSE SomeOf(Scalar(t, v))

\* FromColumn::from_column and FromColumnOpt::from_column_opt of
\* from_column.rs, with the body of from_column!.
from_column(r, T, idx) ==
    LET g == try_get(r, T, idx)
        t == ScalarOf(T)
    IN CASE g.r = "OkNone" -> Err("OutOfRange", idx)
         [] g.r = "Err" -> Err("ConversionInvalid", idx)
         [] OTHER ->
              IF T.kind = "option"
              THEN IF g.null THEN Ok(NoneOf(T.parts[1]))
                   ELSE IF t \in {"&str", "String"} THEN Ok(FromColumnOptText(t, g.val))
                   ELSE Ok(SomeOf(Scalar(t, FromColumnConv(t, g.val))))
              ELSE Ok(Scalar(t, FromColumnConv(t, g.val)))

\* Every column decoded, the error of the last failing one returned.
RECURSIVE FromRowFromExhaust(_, _, _, _, _)
FromRowFromExhaust(r, Ts, i, vs, calls) ==
    IF i >= Len(Ts) THEN [res |-> Ok(TupleOf(vs)), calls |-> calls]
    ELSE LET g == RowGet(r, Ts[i + 1], i)
             rest == FromRowFromExhaust(r, Ts, i + 1,
                                        IF g.ok THEN Append(vs, g.val) ELSE vs,
                                        Append(calls, i))
         IN IF g.ok \/ ~rest.res.ok THEN rest
            ELSE [res |-> g, calls |-> rest.calls]

\* FromRow::from_row of a tuple: `Ok((row.get(0)?, row.get(1)?, ...))`, from
\* column i on; vs are the values decoded so far and calls the indices
\* Row::get was called with.
RECURSIVE FromRowFrom(_, _, _, _, _)
FromRowFrom(r, Ts, i, vs, calls) ==
    IF i >= Len(Ts) THEN [res |-> Ok(TupleOf(vs)), calls |-> calls]
    ELSE LET g == RowGet(r, Ts[i + 1], i)
         IN IF g.ok THEN FromRowFrom(r, Ts, i + 1, Append(vs, g.val), Append(calls, i))
            ELSE [res |-> g, calls |-> Append(calls, i)]

(***************************************************************************)
(* The rows and the types the callers decode them into.                    *)
(***************************************************************************)
\* Numeric values of a DECIMAL(28,12) column: 1.5, 2^63 * 10^-12,
\* (2^64 + 1) * 10^-12, -10^-12 and (10^28 - 1) * 10^-12.
Numerics ==
    { <<38912, 16119, 349, 0, 0, 0, 0, 0, 12>>,
      <<0, 0, 0, 32768, 0, 0, 0, 0, 12>>,
      <<1, 0, 0, 0, 1, 0, 0, 0, 12>>,
      <<65535, 65535, 65535, 65535, 65535, 65535, 65535, 65535, 12>>,
      <<65535, 4095, 609, 15909, 52830, 8271, 0, 0, 12>> }

Uuids == { Bytes16,
           <<0, 17, 34, 51, 68, 85, 102, 119, 136, 153, 170, 187, 204, 221, 238, 255>> }

Cols ==
    { Col("int", "I32", <<7>>), Col("int", "None", <<>>),
      Col("nvarchar", "String", <<116, 50>>), Col("nvarchar", "String", <<>>),
      Col("varchar", "None", <<>>),
      Col("uniqueidentifier", "Guid", Bytes16),
      Col("bit", "Bit", <<1>>) }
    \cup { Col("decimal", "Numeric", <<38912, 16119, 349, 0, 0, 0, 0, 0, 12>>),
           Col("numeric", "Numeric", <<0, 0, 0, 32768, 0, 0, 0, 0, 12>>) }

RECURSIVE RowsUpTo(_)
RowsUpTo(k) ==
    IF k = 0 THEN {<<>>}
    ELSE LET prev == RowsUpTo(k - 1) IN prev \cup {Append(r, c) : r \in prev, c \in Cols}

WideRows ==
    { << Col("int", "I32", <<7>>), Col("nvarchar", "String", <<116, 50>>),
         Col("int", "None", <<>>) >>,
      << Col("int", "None", <<>>), Col("nvarchar", "String", <<116, 50>>),
         Col("int", "None", <<>>) >>,
      << Col("int", "I32", <<7>>), Col("int", "I32", <<7>>), Col("int", "I32", <<7>>),
         Col("int", "I32", <<7>>) >>,
      << Col("int", "I32", <<7>>), Col("nvarchar", "String", <<116, 50>>),
         Col("decimal", "Numeric", <<38912, 16119, 349, 0, 0, 0, 0, 0, 12>>),
         Col("uniqueidentifier", "Guid", Bytes16), Col("bit", "Bit", <<1>>) >>,
      << Col("int", "I32", <<7>>), Col("nvarchar", "String", <<116, 50>>),
         Col("decimal", "Numeric", <<38912, 16119, 349, 0, 0, 0, 0, 0, 12>>),
         Col("bit", "Bit", <<1>>), Col("bit", "None", <<>>) >> }

NumericRows == { << Col("decimal", "Numeric", n) >> : n \in Numerics }

Rows == RowsUpTo(MaxCols) \cup WideRows \cup NumericRows

DecodeScalars == {"bool", "i32", "&str", "String", "Decimal", "Uuid"}

Targets == { ScalarTy(t) : t \in DecodeScalars } \cup { OptionTy(ScalarTy(t)) : t \in DecodeScalars }

TupleTargets ==
    { << ScalarTy("i32") >>,
      << ScalarTy("i32"), ScalarTy("&str") >>,
      << ScalarTy("&str"), ScalarTy("i32") >>,
      << OptionTy(ScalarTy("i32")), OptionTy(ScalarTy("String")) >>,
      << ScalarTy("i32"), ScalarTy("i32"), ScalarTy("i32") >>,
      << ScalarTy("i32"), ScalarTy("i32"), ScalarTy("i32"), ScalarTy("i32") >>,
      << ScalarTy("i32"), ScalarTy("String"), ScalarTy("Decimal"), ScalarTy("Uuid"),
         ScalarTy("bool") >> }

NoResult == [api |-> "none", target |-> <<>>, idx |-> 0, res |-> Ok(TupleOf(<<>>))]

\* `row.get::<T>(idx)`.
DecodeGet(T, idx) ==
    /\ decoded' = [api |-> "get", target |-> <<T>>, idx |-> idx, res |-> RowGet(row, T, idx)]
    /\ getCalls' = <<idx>>
    /\ UNCHANGED <<row, uuid, guid>>
    /\ UNCHANGED <<rewriteVars, facadeVars, connectVars, encodeVars, resolveVars>>

\* `T::from_column(row, idx)` of from_column.rs.
DecodeFromColumn(T, idx) ==
    /\ decoded' = [api |-> "from_column", target |-> <<T>>, idx |-> idx,
                   res |-> from_column(row, T, idx)]
    /\ getCalls' = <<idx>>
    /\ UNCHANGED <<row, uuid, guid>>
    /\ UNCHANGED <<rewriteVars, facadeVars, connectVars, encodeVars, resolveVars>>

\* `<(A, B, ..)>::from_row(row)`.
DecodeFromRow(Ts) ==
    /\ LET d == FromRowFrom(row, Ts, 0, <<>>, <<>>)
       IN /\ decoded' = [api |-> "from_row", target |-> Ts, idx |-> 0, res |-> d.res]
          /\ getCalls' = d.calls
    /\ UNCHANGED <<row, uuid, guid>>
    /\ UNCHANGED <<rewriteVars, facadeVars, connectVars, encodeVars, resolveVars>>

\* test_select_uuid: the Uuid is bound as Parameter::Uuid(to_guid(&u)) and
\* "SELECT @v" returns the Guid as the only column of the row.
SelectUuid(id) ==
    /\ uuid = <<>>
    /\ uuid' = id
    /\ guid' = to_guid(id)
    /\ row' = << Col("uniqueidentifier", "Guid", guid') >>
    /\ decoded' = NoResult
    /\ getCalls' = <<>>
    /\ UNCHANGED <<rewriteVars, facadeVars, connectVars, encodeVars, resolveVars>>

(***************************************************************************)
(* The datasource resolver of utils.rs.  Offsets are those of Rust         *)
(* (0-based); an Option<usize> is None or Some(offset).                    *)
(***************************************************************************)
Min(a, b) == IF a < b THEN a ELSE b

UnwrapOr(o, d) == IF o = None THEN d ELSE o[1]

\* str::find(char): the offset of the first occurrence.
RECURSIVE FindFrom(_, _, _)
FindFrom(s, c, i) ==
    IF i > Len(s) THEN None
    ELSE IF s[i] = c THEN Some(i - 1)
    ELSE FindFrom(s, c, i + 1)

StartsWith(s, p) == Len(s) >= Len(p) /\ SubSeq(s, 1, Len(p)) = p

\* Iterator::take and Iterator::skip on the characters of a text.
Take(s, n) == SubSeq(s, 1, Min(n, Len(s)))

Skip(s, n) == SubSeq(s, n + 1, Len(s))

\* The text tested without trimming.
IsEmptyUntrimmed(s) == s = <<>>

\* str::trim().is_empty(): nothing but whitespace.
TrimIsEmpty(s) == \A i \in 1..Len(s) : IsWhitespace(s[i])

Localhost == <<"l", "o", "c", "a", "l", "h", "o", "s", "t">>

TcpPrefix == <<"t", "c", "p", ":">>

IsDigit(c) == \E d \in 1..10 : DigitChar[d] = c

DigitValue(c) == (CHOOSE d \in 1..10 : DigitChar[d] = c) - 1

\* u8::from_str of one group of an IPv4 literal: one to three digits, no
\* leading zero, at most 255.
RECURSIVE DecimalValue(_, _)
DecimalValue(s, acc) ==
    IF s = <<>> THEN acc ELSE DecimalValue(Tail(s), 10 * acc + DigitValue(s[1]))

ParseOctet(s) ==
    IF Len(s) \in 1..3 /\ (\A i \in 1..Len(s) : IsDigit(s[i]))
       /\ (Len(s) = 1 \/ s[1] # "0") /\ DecimalValue(s, 0) <= 255
    THEN Some(DecimalValue(s, 0))
    ELSE None

\* The text split at its dots.
RECURSIVE SplitDots(_, _, _)
SplitDots(s, i, cur) ==
    IF i > Len(s) THEN <<cur>>
    ELSE IF s[i] = "." THEN <<cur>> \o SplitDots(s, i + 1, <<>>)
    ELSE SplitDots(s, i + 1, Append(cur, s[i]))

\* str::parse::<Ipv4Addr>().
ParseIpv4(s) ==
    LET gs == SplitDots(s, 1, <<>>)
    IN IF Len(gs) = 4 /\ (\A i \in 1..4 : ParseOctet(gs[i]) # None)
       THEN Some([v |-> 4, groups |-> [i \in 1..4 |-> ParseOctet(gs[i])[1]]])
       ELSE None

HexChar == <<"0", "1", "2", "3", "4", "5", "6", "7", "8", "9", "a", "b", "c", "d", "e", "f">>

\* format!("{:x}", n).
RECURSIVE FormatHex(_)
FormatHex(n) ==
    IF n < 16 THEN <<HexChar[n + 1]>>
    ELSE FormatHex(n \div 16) \o <<HexChar[(n % 16) + 1]>>

RECURSIVE JoinWith(_, _)
JoinWith(parts, sep) ==
    IF parts = <<>> THEN <<>>
    ELSE IF Len(parts) = 1 THEN parts[1]
    ELSE parts[1] \o <<sep>> \o JoinWith(Tail(parts), sep)

\* The length of the run of zero groups that starts at group i.
RECURSIVE ZeroRun(_, _)
ZeroRun(gs, i) == IF i > Len(gs) \/ gs[i] # 0 THEN 0 ELSE 1 + ZeroRun(gs, i + 1)

\* Display of an Ipv6Addr (neither IPv4-mapped nor IPv4-compatible): the
\* first longest run of two or more zero groups is written "::".
Ipv6ToString(gs) ==
    LET best == CHOOSE i \in 1..8 :
                    /\ \A j \in 1..8 : ZeroRun(gs, j) <= ZeroRun(gs, i)
                    /\ \A j \in 1..(i - 1) : ZeroRun(gs, j) < ZeroRun(gs, i)
        len == ZeroRun(gs, best)
        hex(a, b) == JoinWith([k \in 1..(b - a + 1) |-> FormatHex(gs[a + k - 1])], ":")
    IN IF len < 2 THEN hex(1, 8)
       ELSE hex(1, best - 1) \o <<":", ":">> \o hex(best + len, 8)

\* IpAddr::to_string().
IpToString(a) ==
    IF a.v = 4 THEN JoinWith([k \in 1..4 |-> FormatNat(a.groups[k])], ".")
    ELSE Ipv6ToString(a.groups)

\* Every host looked up, a numeric one as well.
to_socket_addrs_lookup_only(host, answer) == answer

\* `(host, 0).to_socket_addrs()`: an IPv4 literal is parsed, any other host
\* is looked up and the answer is the environment's; the empty host name
\* is refused.  (No host of this model is an IPv6 literal.)
to_socket_addrs(host, answer) ==
    IF ParseIpv4(host) # None THEN [ok |-> TRUE, addrs |-> <<ParseIpv4(host)[1]>>]
    ELSE IF host = <<>> THEN [ok |-> FALSE, addrs |-> <<>>]
    ELSE answer

\* Is the host looked up (and not parsed)?
IsLookedUp(host) == ParseIpv4(host) = None /\ host # <<>>

\* The loop of resolve: stop at the first IPv4 address, `ipv6 = Some(addr)`
\* for every IPv6 address met before.
RECURSIVE ResolveScan(_, _, _)
ResolveScan(addrs, i, ipv6) ==
    IF i > Len(addrs) THEN [ipv4 |-> None, ipv6 |-> ipv6]
    ELSE IF addrs[i].v = 4 THEN [ipv4 |-> Some(addrs[i]), ipv6 |-> ipv6]
    ELSE ResolveScan(addrs, i + 1, Some(addrs[i]))

ResolveOk(text, host) == [ok |-> TRUE, text |-> text, err |-> "none", host |-> host]

ResolveErr(e, host) == [ok |-> FALSE, text |-> <<>>, err |-> e, host |-> host]

\* The host name returned as it is, without a lookup.
resolve_keep_host(host0, answer) == ResolveOk(host0, host0)

\* utils::resolve.
resolve(host0, answer) ==
    LET host == IF host0 = <<".">> THEN Localhost ELSE host0
        iter == to_socket_addrs(host, answer)
    IN IF ~iter.ok THEN ResolveErr("Io", host)
       ELSE LET found == ResolveScan(iter.addrs, 1, None)
                socket_address == IF found.ipv4 # None THEN found.ipv4 ELSE found.ipv6
            IN IF socket_address # None
               THEN ResolveOk(IpToString(socket_address[1]), host)
               ELSE ResolveErr("HostNotFound", host)

\* `instance_sep.map(|i| s.chars().take(port_sep.unwrap_or(len)).skip(i))`.
InstanceOf(s, instance_sep, port_sep) ==
    IF instance_sep = None THEN None
    ELSE Some(Skip(Take(s, UnwrapOr(port_sep, Len(s))), instance_sep[1]))

\* `port_sep.map(|i| s.chars().skip(i + 1)).filter(|p| !p.is_empty())`.
PortOf(s, port_sep) ==
    IF port_sep = None \/ Skip(s, port_sep[1] + 1) = <<>> THEN None
    ELSE Some(Skip(s, port_sep[1] + 1))

\* utils::resolve_datasource_into_ip.
resolve_datasource_into_ip(s, answer) ==
    LET instance_sep == FindFrom(s, "\\", 1)
        port_sep == FindFrom(s, ",", 1)
        has_tcp == StartsWith(ToLowercase(s), TcpPrefix)
        tcp_sep == IF has_tcp THEN 4 ELSE 0
        m == Min(UnwrapOr(port_sep, Len(s)), UnwrapOr(instance_sep, Len(s)))
        machine == resolve(Skip(Take(s, m), tcp_sep), answer)
        instance == InstanceOf(s, instance_sep, port_sep)
        port == PortOf(s, port_sep)
    IN IF ~machine.ok THEN machine
       ELSE ResolveOk(TcpPrefix \o machine.text
                        \o (IF instance # None THEN instance[1] ELSE <<>>)
                        \o (IF port # None THEN <<",">> \o port[1] ELSE <<>>),
                      machine.host)

\* What MsSqlConnStr::from_str and the accessors of the parsed connection
\* string give: does the string parse, the data source and the initial
\* catalog (None when the key is absent), and the boolean options ("err"
\* when the value is not a boolean, "absent" when the key is missing).
ConnOf(parses, ds, cat, isec, trust, enc) ==
    [parses |-> parses, data_source |-> ds, initial_catalog |-> cat,
     integrated_security |-> isec, trust_server_certificate |-> trust, encrypt |-> enc]

KeyValue(k, v) == [key |-> k, value |-> v]

AdjustOk(out, hosts) == [ok |-> TRUE, out |-> out, err |-> "none", hosts |-> hosts]

AdjustErr(e, hosts) == [ok |-> FALSE, out |-> <<>>, err |-> e, hosts |-> hosts]

TrueText == <<"t", "r", "u", "e">>

\* The option read with a default of false.
TrustOrFalse(v) == IF v = "absent" THEN "false" ELSE v

\* `conn.trust_server_certificate_or(true)?`.
TrustOrTrue(v) == IF v = "absent" THEN "true" ELSE v

\* utils::adjust_conn_str.  `hosts` are the host names handed to
\* to_socket_addrs on the way.
adjust_conn_str(conn, answer) ==
    IF ~conn.parses THEN AdjustErr("ConnStr", <<>>)
    ELSE IF conn.data_source = None \/ TrimIsEmpty(conn.data_source[1])
    THEN AdjustErr("DataSourceNotSpecified", <<>>)
    ELSE LET datasource == resolve_datasource_into_ip(conn.data_source[1], answer)
             hosts == <<datasource.host>>
         IN IF ~datasource.ok THEN AdjustErr(datasource.err, hosts)
            ELSE IF conn.integrated_security = "err" THEN AdjustErr("ConnStr", hosts)
            ELSE IF TrustOrTrue(conn.trust_server_certificate) = "err"
                 THEN AdjustErr("ConnStr", hosts)
            ELSE IF conn.encrypt = "err" THEN AdjustErr("ConnStr", hosts)
            ELSE AdjustOk(
                   << KeyValue("server", datasource.text) >>
                   \o (IF conn.initial_catalog # None
                       THEN << KeyValue("database", conn.initial_catalog[1]) >> ELSE <<>>)
                   \o (IF conn.integrated_security = "true"
                       THEN << KeyValue("integratedsecurity", <<"s", "s", "p", "i">>) >> ELSE <<>>)
                   \o (IF TrustOrTrue(conn.trust_server_certificate) = "true"
                       THEN << KeyValue("trustservercertificate", TrueText) >> ELSE <<>>)
                   \o (IF conn.encrypt = "true"
                       THEN << KeyValue("encrypt", TrueText) >> ELSE <<>>),
                   hosts)

(***************************************************************************)
(* The connection strings, the datasources and the lookup answers.         *)
(***************************************************************************)
Hosts == { <<"s", "q", "l">>, <<".">>, <<"1", "0", ".", "0", ".", "0", ".", "1">>, <<>> }

Prefixes == { <<>>, TcpPrefix, <<"T", "C", "P", ":">> }

Instances == { <<>>, <<"\\", "S", "1">> }

Ports == { <<>>, <<",", "1", "4", "3", "3">>, <<",">> }

ShapedDatasources ==
    { p \o h \o i \o q : p \in Prefixes, h \in Hosts, i \in Instances, q \in Ports }

BlankDatasources == { <<>>, <<" ">>, <<" ", " ">> }

Datasources ==
    ShapedDatasources \cup BlankDatasources
    \cup { <<"s", "q", "l", ",", "1", "4", "\\", "S", "1">>, <<" ", "s", "q", "l">> }

Addrs ==
    { [v |-> 4, groups |-> <<127, 0, 0, 1>>],
      [v |-> 4, groups |-> <<10, 1, 2, 3>>],
      [v |-> 6, groups |-> <<0, 0, 0, 0, 0, 0, 0, 1>>],
      [v |-> 6, groups |-> <<8193, 3512, 0, 0, 0, 0, 0, 2>>] }

RECURSIVE AddrListsUpTo(_)
AddrListsUpTo(k) ==
    IF k = 0 THEN {<<>>}
    ELSE LET prev == AddrListsUpTo(k - 1) IN prev \cup {Append(l, a) : l \in prev, a \in Addrs}

Answers ==
    { [ok |-> TRUE, addrs |-> l] : l \in AddrListsUpTo(MaxAddrs) }
    \cup { [ok |-> FALSE, addrs |-> <<>>] }

OptionSets ==
    { <<None, "false", "absent", "false">>,
      <<Some(<<"d", "b">>), "true", "true", "true">>,
      <<None, "false", "false", "false">>,
      <<Some(<<"d", "b">>), "true", "false", "true">>,
      <<Some(<<"d", "b">>), "true", "absent", "true">>,
      <<None, "false", "true", "false">>,
      <<None, "err", "absent", "false">>,
      <<None, "false", "err", "false">>,
      <<None, "false", "absent", "err">> }

Conns ==
    { ConnOf(TRUE, ds, o[1], o[2], o[3], o[4]) :
        ds \in {None} \cup {Some(d) : d \in Datasources}, o \in OptionSets }
    \cup { ConnOf(FALSE, None, None, "false", "absent", "false") }

NoResolved == [entry |-> "none", ok |-> FALSE, text |-> <<>>, out |-> <<>>, err |-> "none"]

\* A call of adjust_conn_str, as Connection::connect makes it.
AdjustConnStrCall ==
    /\ resolved = NoResolved
    /\ connIn.entry = "adjust_conn_str"
    /\ LET r == adjust_conn_str(connIn.conn, dns)
       IN /\ resolved' = [entry |-> "adjust_conn_str", ok |-> r.ok, text |-> <<>>,
                          out |-> r.out, err |-> r.err]
          /\ lookups' = lookups \o r.hosts
    /\ UNCHANGED <<connIn, dns>>
    /\ UNCHANGED <<rewriteVars, facadeVars, connectVars, encodeVars, decodeVars>>

\* A call of resolve_datasource_into_ip, as resolve_datasource_into_ip_works
\* makes it.
ResolveDatasourceCall ==
    /\ resolved = NoResolved
    /\ connIn.entry = "resolve_datasource_into_ip"
    /\ LET r == resolve_datasource_into_ip(connIn.conn.data_source[1], dns)
       IN /\ resolved' = [entry |-> "resolve_datasource_into_ip", ok |-> r.ok,
                          text |-> r.text, out |-> <<>>, err |-> r.err]
          /\ lookups' = Append(lookups, r.host)
    /\ UNCHANGED <<connIn, dns>>
    /\ UNCHANGED <<rewriteVars, facadeVars, connectVars, encodeVars, decodeVars>>

\* A call of resolve on a host name, as resolve_works makes it.
ResolveCall ==
    /\ resolved = NoResolved
    /\ connIn.entry = "resolve"
    /\ LET r == resolve(connIn.conn.data_source[1], dns)
       IN /\ resolved' = [entry |-> "resolve", ok |-> r.ok, text |-> r.text,
                          out |-> <<>>, err |-> r.err]
          /\ lookups' = Append(lookups, r.host)
    /\ UNCHANGED <<connIn, dns>>
    /\ UNCHANGED <<rewriteVars, facadeVars, connectVars, encodeVars, decodeVars>>

(***************************************************************************)
(* The inputs of the rewriters: SQL texts built from a few fragments and   *)
(* bound names that are Rust identifiers.                                  *)
(***************************************************************************)
Frags == { <<"@", "p">>, <<"@", "P">>, <<"@", "p", "1">>, <<"@", "P", "1">>,
           <<",">>, <<" ">>, <<"_">>, <<"x">>, <<"@">> }

RECURSIVE TextsUpTo(_)
TextsUpTo(k) ==
    IF k = 0 THEN {<<>>}
    ELSE LET prev == TextsUpTo(k - 1) IN prev \cup {t \o f : t \in prev, f \in Frags}

Texts == TextsUpTo(MaxFrags)

Names == { <<"p">>, <<"P">>, <<"p", "1">>, <<"P", "1">> }

\* The value the caller binds to a name.
BindingValue(n) == 10 * Len(n) + (IF n[1] = "P" THEN 1 ELSE 0)

Range(f) == {f[i] : i \in DOMAIN f}

NoCall == [sql |-> <<>>, params |-> <<>>, made |-> FALSE]

\* One call of a replace_params chain: binding k is replaced by the marker pk.
ReplaceParamsStep(n) ==
    /\ mode = "scan"
    /\ Len(names) < MaxBindings
    /\ n \notin Range(names)
    /\ sql' = replace_params(sql, n, ScanMarker(Len(names) + 1))
    /\ names' = Append(names, n)
    /\ UNCHANGED <<mode, orig, vals, driverCall>>
    /\ UNCHANGED <<facadeVars, connectVars, codecVars>>

\* One repetition of the macro's `$( ... )*` block for the binding
\* `n = BindingValue(n)`: i is the binding's position, then `i += 1`.
MacroRewriteStep(n) ==
    /\ mode = "regex"
    /\ driverCall = NoCall
    /\ Len(names) < MaxBindings
    /\ n \notin Range(names)
    /\ sql' = regex_replace_all(sql, n, RegexMarker(Len(names) + 1))
    /\ names' = Append(names, n)
    /\ vals' = Append(vals, BindingValue(n))
    /\ UNCHANGED <<mode, orig, driverCall>>
    /\ UNCHANGED <<facadeVars, connectVars, codecVars>>

\* `$command.query_params(&*SQL, ($($fvalue,)*))`: the rewritten text and the
\* encoded tuple of the bindings' values go to the driver.
QueryParamsCall ==
    /\ mode = "regex"
    /\ driverCall = NoCall
    /\ driverCall' = [sql |-> sql, params |-> TupleParams(vals, 1, <<>>), made |-> TRUE]
    /\ UNCHANGED <<mode, orig, sql, names, vals>>
    /\ UNCHANGED <<facadeVars, connectVars, codecVars>>

\* The replacement texts a caller of replace_params passes: empty, shorter
\* and longer than the names, and one with a marker in it.
Replacements == { <<>>, <<"x">>, <<"p", "1">>, <<"x", "@", "p">> }

\* One call of replace_params(&mut sql, n, r) on a fresh text.
ReplaceParamsCall(n, r) ==
    /\ mode = "splice"
    /\ names = <<>>
    /\ sql' = replace_params(sql, n, r)
    /\ names' = <<n>>
    /\ vals' = <<r>>
    /\ UNCHANGED <<mode, orig, driverCall>>
    /\ UNCHANGED <<facadeVars, connectVars, codecVars>>

(***************************************************************************)
(* The command facade.  A row of the driver's stream is [id, ok]: the      *)
(* conversion function returns Ok(id) when ok and an error otherwise.      *)
(* The stream is a sequence of Next events closed by Done or by the        *)
(* driver's own error.                                                     *)
(***************************************************************************)
NoErr == [kind |-> "none", id |-> 0]

\* func(&Row(row)).context("row conversion failed.")
ConvError(id) == [kind |-> "conv", id |-> id]

\* map_err: format_err!("Query failed. {:?}", e)
StreamError == [kind |-> "stream", id |-> 0]

NextEv(id, ok) == [t |-> "Next", id |-> id, ok |-> ok]
DoneEv  == [t |-> "Done", id |-> 0, ok |-> TRUE]
ErrorEv == [t |-> "Error", id |-> 0, ok |-> FALSE]

\* The result streams of the driver: up to MaxRows rows, then Done or Error.
Streams ==
    UNION { { [i \in 1..(n + 1) |->
                 IF i <= n THEN NextEv(i, oks[i]) ELSE end]
              : oks \in [1..n -> BOOLEAN], end \in {DoneEv, ErrorEv} }
            : n \in 0..MaxRows }

\* The conversion error dropped instead of stored.
StoreErrDropped(e) == NoErr

\* `Err(e) => self.err = Some(e.into())`
StoreErr(e) == e

\* The stored error never looked at.
ErrIgnored(e) == TRUE

\* `self.err.is_none()`
ErrIsNone(e) == e = NoErr

\* A poll that reports the pending conversion error in place of the
\* driver's error.
RECURSIVE PollLoopPendingFirst(_, _, _, _)
PollLoopPendingFirst(evs, k, e, calls) ==
    IF k = 0 \/ evs = <<>>
    THEN [ret |-> "NotReady", item |-> 0, error |-> NoErr,
          stream |-> evs, err |-> e, calls |-> calls]
    ELSE LET ev == Head(evs)
             rest == Tail(evs)
             called == Append(calls, [id |-> ev.id, ok |-> ev.ok])
         IN  CASE ev.t = "Next" ->
                    IF e # NoErr THEN PollLoopPendingFirst(rest, k - 1, e, calls)
                    ELSE IF ev.ok
                    THEN [ret |-> "Next", item |-> ev.id, error |-> NoErr,
                          stream |-> rest, err |-> e, calls |-> called]
                    ELSE PollLoopPendingFirst(rest, k - 1, ConvError(ev.id), called)
               [] OTHER ->
                    IF e # NoErr
                    THEN [ret |-> "Err", item |-> 0, error |-> e,
                          stream |-> rest, err |-> NoErr, calls |-> calls]
                    ELSE [ret |-> IF ev.t = "Done" THEN "Done" ELSE "Err", item |-> 0,
                          error |-> IF ev.t = "Done" THEN NoErr ELSE StreamError,
                          stream |-> rest, err |-> e, calls |-> calls]

\* A poll that returns the conversion error as soon as a row fails.
RECURSIVE PollLoopFailFast(_, _, _, _)
PollLoopFailFast(evs, k, e, calls) ==
    IF k = 0 \/ evs = <<>>
    THEN [ret |-> "NotReady", item |-> 0, error |-> NoErr,
          stream |-> evs, err |-> e, calls |-> calls]
    ELSE LET ev == Head(evs)
             rest == Tail(evs)
             called == Append(calls, [id |-> ev.id, ok |-> ev.ok])
         IN  CASE ev.t = "Error" ->
                    [ret |-> "Err", item |-> 0, error |-> StreamError,
                     stream |-> rest, err |-> e, calls |-> calls]
               [] ev.t = "Next" ->
                    IF ev.ok
                    THEN [ret |-> "Next", item |-> ev.id, error |-> NoErr,
                          stream |-> rest, err |-> e, calls |-> called]
                    ELSE [ret |-> "Err", item |-> 0, error |-> ConvError(ev.id),
                          stream |-> rest, err |-> NoErr, calls |-> called]
               [] ev.t = "Done" ->
                    [ret |-> "Done", item |-> 0, error |-> NoErr,
                     stream |-> rest, err |-> e, calls |-> calls]

\* MapResultExhaust::poll: the loop over self.stream.poll(), with k events
\* of the underlying stream ready (NotReady after them).
RECURSIVE PollLoop(_, _, _, _)
PollLoop(evs, k, e, calls) ==
    IF k = 0 \/ evs = <<>>
    THEN [ret |-> "NotReady", item |-> 0, error |-> NoErr,
          stream |-> evs, err |-> e, calls |-> calls]
    ELSE LET ev == Head(evs)
             rest == Tail(evs)
         IN  CASE ev.t = "Error" ->
                    [ret |-> "Err", item |-> 0, error |-> StreamError,
                     stream |-> rest, err |-> e, calls |-> calls]
               [] ev.t = "Next" ->
                    IF ErrIsNone(e)
                    THEN IF ev.ok
                         THEN [ret |-> "Next", item |-> ev.id, error |-> NoErr,
                               stream |-> rest, err |-> e,
                               calls |-> Append(calls, [id |-> ev.id, ok |-> ev.ok])]
                         ELSE PollLoop(rest, k - 1, StoreErr(ConvError(ev.id)),
                                       Append(calls, [id |-> ev.id, ok |-> ev.ok]))
                    ELSE PollLoop(rest, k - 1, e, calls)
               [] ev.t = "Done" ->
                    IF e # NoErr
                    THEN [ret |-> "Err", item |-> 0, error |-> e,
                          stream |-> rest, err |-> NoErr, calls |-> calls]
                    ELSE [ret |-> "Done", item |-> 0, error |-> NoErr,
                          stream |-> rest, err |-> e, calls |-> calls]

NoOutcome == [op |-> "none", status |-> "none", handle |-> "none",
              rows |-> <<>>, error |-> NoErr]

Op(kind, on) == [kind |-> kind, on |-> on]

\* The handle an operation returns when it succeeds.
ResultHandle(op) ==
    CASE op.kind = "transaction" -> "Transaction"
      [] op.kind \in {"commit", "rollback"} -> "Connection"
      [] OTHER -> op.on

\* The operations each handle type offers.
OpsOf(h) ==
    IF h = "Connection" THEN {"execute", "query", "transaction"}
    ELSE {"execute", "query", "commit", "rollback"}

RemoveAt(q, i) == SubSeq(q, 1, i - 1) \o SubSeq(q, i + 1, Len(q))

\* A method taking `&self`: the caller keeps the handle.
ConsumeHandleBorrowed(hs, h) == hs

\* A method taking `self`: the handle moves into the returned future.
ConsumeHandle(hs, h) == hs \ {h}

\* What the caller holds after a failed operation: the future's error
\* carries no handle.
HandlesAfterFailure(hs, op) == hs

\* execute / execute_params, transaction, commit, rollback: the call.
StartCommand(h, kind) ==
    /\ h \in handles
    /\ kind \in OpsOf(h) \ {"query"}
    /\ handles' = ConsumeHandle(handles, h)
    /\ ops' = Append(ops, Op(kind, h))
    /\ UNCHANGED <<stream, driverRows, err, items, convCalls, outcome>>
    /\ UNCHANGED <<rewriteVars, connectVars, codecVars>>

\* query / query_params / query_with / query_params_with: the call.  The
\* driver's stream is mapped by map_result_exhaust and collected.
StartQuery(h, st) ==
    /\ h \in handles
    /\ handles' = ConsumeHandle(handles, h)
    /\ ops' = Append(ops, Op("query", h))
    /\ stream' = st
    /\ driverRows' = st
    /\ err' = NoErr
    /\ items' = <<>>
    /\ convCalls' = <<>>
    /\ UNCHANGED outcome
    /\ UNCHANGED <<rewriteVars, connectVars, codecVars>>

\* The driver completes a command successfully: map_ok wraps the connection.
CommandOk(i) ==
    /\ i \in DOMAIN ops
    /\ ops[i].kind # "query"
    /\ ops' = RemoveAt(ops, i)
    /\ handles' = handles \cup {ResultHandle(ops[i])}
    /\ outcome' = [op |-> ops[i].kind, status |-> "ok",
                   handle |-> ResultHandle(ops[i]), rows |-> <<>>, error |-> NoErr]
    /\ UNCHANGED <<stream, driverRows, err, items, convCalls>>
    /\ UNCHANGED <<rewriteVars, connectVars, codecVars>>

\* The driver fails a command: map_err, the connection is gone with the error.
CommandErr(i) ==
    /\ i \in DOMAIN ops
    /\ ops[i].kind # "query"
    /\ ops' = RemoveAt(ops, i)
    /\ handles' = HandlesAfterFailure(handles, ops[i])
    /\ outcome' = [op |-> ops[i].kind, status |-> "err", handle |-> "none",
                   rows |-> <<>>, error |-> StreamError]
    /\ UNCHANGED <<stream, driverRows, err, items, convCalls>>
    /\ UNCHANGED <<rewriteVars, connectVars, codecVars>>

\* One MapResultExhaust::poll call made by Collect, and what Collect does
\* with its result: push the item, complete with (rows, connection), fail.
PollQuery(i, k) ==
    /\ i \in DOMAIN ops
    /\ ops[i].kind = "query"
    /\ stream # <<>>
    /\ k \in 1..Len(stream)
    /\ LET r == PollLoop(stream, k, err, convCalls) IN
        /\ stream' = r.stream
        /\ err' = r.err
        /\ convCalls' = r.calls
        /\ CASE r.ret = "Next" ->
                    /\ items' = Append(items, r.item)
                    /\ UNCHANGED <<ops, handles, outcome>>
             [] r.ret = "NotReady" ->
                    UNCHANGED <<items, ops, handles, outcome>>
             [] r.ret = "Done" ->
                    /\ ops' = RemoveAt(ops, i)
                    /\ handles' = handles \cup {ResultHandle(ops[i])}
                    /\ outcome' = [op |-> "query", status |-> "ok",
                                   handle |-> ResultHandle(ops[i]),
                                   rows |-> items, error |-> NoErr]
                    /\ items' = <<>>
             [] r.ret = "Err" ->
                    /\ ops' = RemoveAt(ops, i)
                    /\ handles' = HandlesAfterFailure(handles, ops[i])
                    /\ outcome' = [op |-> "query", status |-> "err", handle |-> "none",
                                   rows |-> <<>>, error |-> r.error]
                    /\ items' = <<>>
    /\ UNCHANGED driverRows
    /\ UNCHANGED <<rewriteVars, connectVars, codecVars>>

(***************************************************************************)
(* Connection establishment: Connection::from_env, Connection::connect,    *)
(* utils::adjust_conn_str and the two conn_arch builds.  A connection      *)
(* string is described by what adjust_conn_str finds in it.                *)
(***************************************************************************)
Callers == 1..NCallers

NoOwner == 0

\* What a connection string holds: does MsSqlConnStr::from_str accept it, is
\* the data source present and not blank, does the host resolve, do the
\* boolean options (integrated security, trust server certificate, encrypt)
\* parse.
ConnStr(parses, ds, resolves, opts) ==
    [parses |-> parses, ds |-> ds, resolves |-> resolves, opts |-> opts]

GoodConnStr == ConnStr(TRUE, "host", TRUE, TRUE)

ConnStrs ==
    { GoodConnStr,
      ConnStr(FALSE, "host", TRUE, TRUE),
      ConnStr(TRUE, "absent", TRUE, TRUE),
      ConnStr(TRUE, "blank", TRUE, TRUE),
      ConnStr(TRUE, "host", FALSE, TRUE),
      ConnStr(TRUE, "host", TRUE, FALSE) }

\* A caller's input: the entry point, whether the environment variable can
\* be read, and the connection string.
Inputs ==
    { [entry |-> "connect", env |-> TRUE, cs |-> c] : c \in ConnStrs }
    \cup { [entry |-> "from_env", env |-> FALSE, cs |-> GoodConnStr],
           [entry |-> "from_env", env |-> TRUE, cs |-> GoodConnStr],
           [entry |-> "from_env", env |-> TRUE, cs |-> ConnStr(TRUE, "host", FALSE, TRUE)] }

Pending == [status |-> "pending", error |-> "none"]
Failed(e) == [status |-> "err", error |-> e]
Connected == [status |-> "ok", error |-> "none"]

\* adjust_conn_str up to the host lookup: `MsSqlConnStr::from_str(s)?` and
\* the data source filter.  "ok" means the lookup is started.
AdjustBeforeResolve(cs) ==
    IF ~cs.parses THEN "ConnectionStringParse"
    ELSE IF cs.ds # "host" THEN "DataSourceNotSpecified"
    ELSE "ok"

\* A lookup failure ignored (the host name kept as it is).
AdjustAfterResolveKeepHost(cs) ==
    IF ~cs.opts THEN "ConnectionStringParse" ELSE "ok"

\* adjust_conn_str from the result of the lookup on:
\* `resolve_datasource_into_ip(datasource)?`, then the options.
AdjustAfterResolve(cs) ==
    IF ~cs.resolves THEN "HostNotFound"
    ELSE IF ~cs.opts THEN "ConnectionStringParse"
    ELSE "ok"

\* A lock that never waits.
GateFreeAlways(owner) == TRUE

\* GATE.lock() resolves only when no guard is alive.
GateFree(owner) == owner = NoOwner

\* The guard dropped by the success closure only.
ReleaseGateOnSuccess(owner, p, ok) == IF ok /\ owner = p THEN NoOwner ELSE owner

\* The guard `l` moved into the `.map` closure is dropped when the handshake
\* future completes, with a connection or with an error.
ReleaseGate(owner, p, ok) == IF owner = p THEN NoOwner ELSE owner

\* Connection::from_env: `::std::env::var(key)`.
FromEnv(p) ==
    /\ pc[p] = "from_env"
    /\ IF input[p].env
       THEN /\ pc' = [pc EXCEPT ![p] = "connect"]
            /\ UNCHANGED connResult
       ELSE /\ pc' = [pc EXCEPT ![p] = "done"]
            /\ connResult' = [connResult EXCEPT ![p] = Failed("EnvVar")]
    /\ UNCHANGED <<platform, input, gateOwner>>
    /\ UNCHANGED <<rewriteVars, facadeVars, codecVars>>

\* Connection::connect enters adjust_conn_str: parse, data source, and the
\* blocking host lookup begins.
ConnectBegin(p) ==
    /\ pc[p] = "connect"
    /\ LET r == AdjustBeforeResolve(input[p].cs) IN
        IF r = "ok"
        THEN /\ pc' = [pc EXCEPT ![p] = "resolving"]
             /\ UNCHANGED connResult
        ELSE /\ pc' = [pc EXCEPT ![p] = "done"]
             /\ connResult' = [connResult EXCEPT ![p] = Failed(r)]
    /\ UNCHANGED <<platform, input, gateOwner>>
    /\ UNCHANGED <<rewriteVars, facadeVars, codecVars>>

\* The lookup returns, adjust_conn_str finishes and, when it succeeded,
\* connect calls conn_arch: on windows the future waits for GATE, elsewhere
\* SqlConnection::connect starts.
ResolveEnd(p) ==
    /\ pc[p] = "resolving"
    /\ LET r == AdjustAfterResolve(input[p].cs) IN
        IF r = "ok"
        THEN /\ pc' = [pc EXCEPT ![p] = IF platform = "windows" THEN "waiting"
                                        ELSE "handshake"]
             /\ UNCHANGED connResult
        ELSE /\ pc' = [pc EXCEPT ![p] = "done"]
             /\ connResult' = [connResult EXCEPT ![p] = Failed(r)]
    /\ UNCHANGED <<platform, input, gateOwner>>
    /\ UNCHANGED <<rewriteVars, facadeVars, codecVars>>

\* windows conn_arch: GATE.lock() resolves and the and_then closure calls
\* SqlConnection::connect.
AcquireGate(p) ==
    /\ platform = "windows"
    /\ pc[p] = "waiting"
    /\ GateFree(gateOwner)
    /\ gateOwner' = p
    /\ pc' = [pc EXCEPT ![p] = "handshake"]
    /\ UNCHANGED <<platform, input, connResult>>
    /\ UNCHANGED <<rewriteVars, facadeVars, codecVars>>

\* The driver's handshake completes with a connection.
HandshakeOk(p) ==
    /\ pc[p] = "handshake"
    /\ gateOwner' = ReleaseGate(gateOwner, p, TRUE)
    /\ pc' = [pc EXCEPT ![p] = "done"]
    /\ connResult' = [connResult EXCEPT ![p] = Connected]
    /\ UNCHANGED <<platform, input>>
    /\ UNCHANGED <<rewriteVars, facadeVars, codecVars>>

\* The driver's handshake fails.
HandshakeErr(p) ==
    /\ pc[p] = "handshake"
    /\ gateOwner' = ReleaseGate(gateOwner, p, FALSE)
    /\ pc' = [pc EXCEPT ![p] = "done"]
    /\ connResult' = [connResult EXCEPT ![p] = Failed("Driver")]
    /\ UNCHANGED <<platform, input>>
    /\ UNCHANGED <<rewriteVars, facadeVars, codecVars>>

(***************************************************************************)
(* The specifications: one per part of the crate, the other parts idle.    *)
(***************************************************************************)
InitRewrite ==
    /\ mode \in {"scan", "regex"}
    /\ orig \in Texts
    /\ sql = orig
    /\ names = <<>>
    /\ vals = <<>>
    /\ driverCall = NoCall
    \* the other parts of the crate are idle
    /\ handles = {} /\ ops = <<>> /\ stream = <<>> /\ driverRows = <<>> /\ err = NoErr
    /\ items = <<>> /\ convCalls = <<>> /\ outcome = NoOutcome
    /\ platform = "windows" /\ gateOwner = NoOwner
    /\ pc = [p \in Callers |-> "done"]
    /\ input = [p \in Callers |-> [entry |-> "connect", env |-> TRUE, cs |-> GoodConnStr]]
    /\ connResult = [p \in Callers |-> Pending]
    /\ encIn = NoEncoding /\ encOut = <<>>
    /\ row = <<>> /\ getCalls = <<>> /\ decoded = NoResult
    /\ uuid = <<>> /\ guid = <<>>
    /\ connIn = [entry |-> "none", conn |-> ConnOf(FALSE, None, None, "false", "absent", "false")]
    /\ dns = [ok |-> FALSE, addrs |-> <<>>] /\ lookups = <<>> /\ resolved = NoResolved

NextRewrite ==
    \/ \E n \in Names : ReplaceParamsStep(n)
    \/ \E n \in Names : MacroRewriteStep(n)
    \/ QueryParamsCall

SpecRewrite == InitRewrite /\ [][NextRewrite]_vars

InitSplice ==
    /\ mode = "splice"
    /\ orig \in Texts
    /\ sql = orig
    /\ names = <<>>
    /\ vals = <<>>
    /\ driverCall = NoCall
    \* the other parts of the crate are idle
    /\ handles = {} /\ ops = <<>> /\ stream = <<>> /\ driverRows = <<>> /\ err = NoErr
    /\ items = <<>> /\ convCalls = <<>> /\ outcome = NoOutcome
    /\ platform = "windows" /\ gateOwner = NoOwner
    /\ pc = [p \in Callers |-> "done"]
    /\ input = [p \in Callers |-> [entry |-> "connect", env |-> TRUE, cs |-> GoodConnStr]]
    /\ connResult = [p \in Callers |-> Pending]
    /\ encIn = NoEncoding /\ encOut = <<>>
    /\ row = <<>> /\ getCalls = <<>> /\ decoded = NoResult
    /\ uuid = <<>> /\ guid = <<>>
    /\ connIn = [entry |-> "none", conn |-> ConnOf(FALSE, None, None, "false", "absent", "false")]
    /\ dns = [ok |-> FALSE, addrs |-> <<>>] /\ lookups = <<>> /\ resolved = NoResolved

NextSplice ==
    \E n \in Names, r \in Replacements : ReplaceParamsCall(n, r)

SpecSplice == InitSplice /\ [][NextSplice]_vars

InitFacade ==
    /\ handles = {"Connection"}
    /\ ops = <<>>
    /\ stream = <<>>
    /\ driverRows = <<>>
    /\ err = NoErr
    /\ items = <<>>
    /\ convCalls = <<>>
    /\ outcome = NoOutcome
    \* the other parts of the crate are idle
    /\ mode = "scan" /\ orig = <<>> /\ sql = <<>>
    /\ names = <<>> /\ vals = <<>> /\ driverCall = NoCall
    /\ platform = "windows" /\ gateOwner = NoOwner
    /\ pc = [p \in Callers |-> "done"]
    /\ input = [p \in Callers |-> [entry |-> "connect", env |-> TRUE, cs |-> GoodConnStr]]
    /\ connResult = [p \in Callers |-> Pending]
    /\ encIn = NoEncoding /\ encOut = <<>>
    /\ row = <<>> /\ getCalls = <<>> /\ decoded = NoResult
    /\ uuid = <<>> /\ guid = <<>>
    /\ connIn = [entry |-> "none", conn |-> ConnOf(FALSE, None, None, "false", "absent", "false")]
    /\ dns = [ok |-> FALSE, addrs |-> <<>>] /\ lookups = <<>> /\ resolved = NoResolved

NextFacade ==
    \/ \E h \in {"Connection", "Transaction"}, kind \in {"execute", "transaction", "commit", "rollback"} :
            StartCommand(h, kind)
    \/ \E h \in {"Connection", "Transaction"}, st \in Streams : StartQuery(h, st)
    \/ \E i \in 1..Len(ops) : CommandOk(i)
    \/ \E i \in 1..Len(ops) : CommandErr(i)
    \/ \E i \in 1..Len(ops), k \in 1..(MaxRows + 1) : PollQuery(i, k)

SpecFacade == InitFacade /\ [][NextFacade]_vars

InitConnect ==
    /\ platform \in {"windows", "other"}
    /\ input \in [Callers -> Inputs]
    /\ pc = [p \in Callers |-> input[p].entry]
    /\ gateOwner = NoOwner
    /\ connResult = [p \in Callers |-> Pending]
    \* the other parts of the crate are idle
    /\ mode = "scan" /\ orig = <<>> /\ sql = <<>>
    /\ names = <<>> /\ vals = <<>> /\ driverCall = NoCall
    /\ handles = {} /\ ops = <<>> /\ stream = <<>> /\ driverRows = <<>> /\ err = NoErr
    /\ items = <<>> /\ convCalls = <<>> /\ outcome = NoOutcome
    /\ encIn = NoEncoding /\ encOut = <<>>
    /\ row = <<>> /\ getCalls = <<>> /\ decoded = NoResult
    /\ uuid = <<>> /\ guid = <<>>
    /\ connIn = [entry |-> "none", conn |-> ConnOf(FALSE, None, None, "false", "absent", "false")]
    /\ dns = [ok |-> FALSE, addrs |-> <<>>] /\ lookups = <<>> /\ resolved = NoResolved

NextConnect ==
    \/ \E p \in Callers : FromEnv(p)
    \/ \E p \in Callers : ConnectBegin(p)
    \/ \E p \in Callers : ResolveEnd(p)
    \/ \E p \in Callers : AcquireGate(p)
    \/ \E p \in Callers : HandshakeOk(p)
    \/ \E p \in Callers : HandshakeErr(p)

SpecConnect == InitConnect /\ [][NextConnect]_vars

\* The executor polls a future that was woken: a caller whose GATE.lock()
\* can resolve is eventually polled, and (the proviso of the liveness
\* property) a handshake that started terminates.
FairConnect ==
    \A p \in Callers :
       /\ WF_vars(AcquireGate(p))
       /\ WF_vars(HandshakeOk(p) \/ HandshakeErr(p))

SpecConnectLive == SpecConnect /\ FairConnect

InitEncode ==
    /\ encIn = NoEncoding
    /\ encOut = <<>>
    \* the other parts of the crate are idle
    /\ mode = "scan" /\ orig = <<>> /\ sql = <<>>
    /\ names = <<>> /\ vals = <<>> /\ driverCall = NoCall
    /\ handles = {} /\ ops = <<>> /\ stream = <<>> /\ driverRows = <<>> /\ err = NoErr
    /\ items = <<>> /\ convCalls = <<>> /\ outcome = NoOutcome
    /\ platform = "windows" /\ gateOwner = NoOwner
    /\ pc = [p \in Callers |-> "done"]
    /\ input = [p \in Callers |-> [entry |-> "connect", env |-> TRUE, cs |-> GoodConnStr]]
    /\ connResult = [p \in Callers |-> Pending]
    /\ row = <<>> /\ getCalls = <<>> /\ decoded = NoResult
    /\ uuid = <<>> /\ guid = <<>>
    /\ connIn = [entry |-> "none", conn |-> ConnOf(FALSE, None, None, "false", "absent", "false")]
    /\ dns = [ok |-> FALSE, addrs |-> <<>>] /\ lookups = <<>> /\ resolved = NoResolved

NextEncode ==
    \/ \E x \in HostValues : ParamsCall(x)
    \/ \E x \in ScalarValues \cup OptionValues : ToParameterCall(x)

SpecEncode == InitEncode /\ [][NextEncode]_vars

InitDecode ==
    /\ row \in Rows
    /\ uuid = <<>>
    /\ guid = <<>>
    /\ getCalls = <<>>
    /\ decoded = NoResult
    \* the other parts of the crate are idle
    /\ mode = "scan" /\ orig = <<>> /\ sql = <<>>
    /\ names = <<>> /\ vals = <<>> /\ driverCall = NoCall
    /\ handles = {} /\ ops = <<>> /\ stream = <<>> /\ driverRows = <<>> /\ err = NoErr
    /\ items = <<>> /\ convCalls = <<>> /\ outcome = NoOutcome
    /\ platform = "windows" /\ gateOwner = NoOwner
    /\ pc = [p \in Callers |-> "done"]
    /\ input = [p \in Callers |-> [entry |-> "connect", env |-> TRUE, cs |-> GoodConnStr]]
    /\ connResult = [p \in Callers |-> Pending]
    /\ encIn = NoEncoding /\ encOut = <<>>
    /\ connIn = [entry |-> "none", conn |-> ConnOf(FALSE, None, None, "false", "absent", "false")]
    /\ dns = [ok |-> FALSE, addrs |-> <<>>] /\ lookups = <<>> /\ resolved = NoResolved

NextDecode ==
    \/ \E T \in Targets, idx \in 0..MaxCols : DecodeGet(T, idx)
    \/ \E T \in Targets, idx \in 0..MaxCols : DecodeFromColumn(T, idx)
    \/ \E Ts \in TupleTargets : DecodeFromRow(Ts)
    \/ \E id \in Uuids : SelectUuid(id)

SpecDecode == InitDecode /\ [][NextDecode]_vars

InitResolve ==
    /\ connIn \in { [entry |-> "adjust_conn_str", conn |-> c] : c \in Conns }
                 \cup { [entry |-> "resolve_datasource_into_ip",
                         conn |-> ConnOf(TRUE, Some(d), None, "false", "absent", "false")] :
                            d \in Datasources }
                 \cup { [entry |-> "resolve",
                         conn |-> ConnOf(TRUE, Some(h), None, "false", "absent", "false")] :
                            h \in Hosts }
    /\ dns \in Answers
    /\ lookups = <<>>
    /\ resolved = NoResolved
    \* the other parts of the crate are idle
    /\ mode = "scan" /\ orig = <<>> /\ sql = <<>>
    /\ names = <<>> /\ vals = <<>> /\ driverCall = NoCall
    /\ handles = {} /\ ops = <<>> /\ stream = <<>> /\ driverRows = <<>> /\ err = NoErr
    /\ items = <<>> /\ convCalls = <<>> /\ outcome = NoOutcome
    /\ platform = "windows" /\ gateOwner = NoOwner
    /\ pc = [p \in Callers |-> "done"]
    /\ input = [p \in Callers |-> [entry |-> "connect", env |-> TRUE, cs |-> GoodConnStr]]
    /\ connResult = [p \in Callers |-> Pending]
    /\ encIn = NoEncoding /\ encOut = <<>>
    /\ row = <<>> /\ getCalls = <<>> /\ decoded = NoResult
    /\ uuid = <<>> /\ guid = <<>>

NextResolve ==
    \/ AdjustConnStrCall
    \/ ResolveDatasourceCall
    \/ ResolveCall

SpecResolve == InitResolve /\ [][NextResolve]_vars

(***************************************************************************)
(* Vocabulary of the rewriter properties.  The occurrences of '@' in a     *)
(* text are numbered from the left; a rewrite keeps their number, so the   *)
(* k-th '@' after a rewrite is the k-th '@' before it.                     *)
(***************************************************************************)
RECURSIVE AtSeqFrom(_, _)
AtSeqFrom(text, i) ==
    IF i > Len(text) THEN <<>>
    ELSE (IF text[i] = "@" THEN <<i>> ELSE <<>>) \o AtSeqFrom(text, i + 1)

\* The positions of the '@' characters, from the left.
AtSeq(text) == AtSeqFrom(text, 1)

\* A character that ends a candidate name.
Terminator(c) == (IsWhitespace(c) \/ IsAsciiPunctuation(c)) /\ c # "@" /\ c # "_"

\* The identifier after the '@' at position i: the longest run of letters,
\* digits and '_'.
IdentAt(text, i) ==
    LET j == CHOOSE j \in i..Len(text) :
                 /\ \A m \in (i + 1)..j : IsWordChar(text[m])
                 /\ (j = Len(text) \/ ~IsWordChar(text[j + 1]))
    IN SubSeq(text, i + 1, j)

\* The collected name after the '@' at position i: everything up to the
\* next terminator or the end of the text.
TokenAt(text, i) ==
    LET j == CHOOSE j \in i..Len(text) :
                 /\ \A m \in (i + 1)..j : ~Terminator(text[m])
                 /\ (j = Len(text) \/ Terminator(text[j + 1]))
    IN SubSeq(text, i + 1, j)

IdentOf(text, k) == IdentAt(text, AtSeq(text)[k])
TokenOf(text, k) == TokenAt(text, AtSeq(text)[k])

\* The k-th '@' starts a token: it stands at the start of the text or
\* after whitespace or punctuation.
StartsToken(text, k) ==
    LET i == AtSeq(text)[k] IN i = 1 \/ Terminator(text[i - 1])

NumAt(text) == Len(AtSeq(text))

\* The step just taken applied a binding; its name and its position.
BindingApplied == names' # names
AppliedName == names'[Len(names')]
AppliedPos == Len(names')

\* The marker of position N as the mode spells it, without the '@'.
MarkerName(N) == IF mode = "scan" THEN ScanMarker(N) ELSE Tail(RegexMarker(N))

(***************************************************************************)
(* C1  Prefix safety.  Whenever a rewriter (replace_params or the regex    *)
(* rewriter of the macros) applies a bound name n to a text, every '@'     *)
(* whose identifier is strictly longer than n and starts with n (letter    *)
(* case ignored) keeps its identifier, and no '@' appears or disappears.   *)
(***************************************************************************)
PrefixSafe(before, after, n) ==
    /\ NumAt(after) = NumAt(before)
    /\ \A k \in 1..NumAt(before) :
          LET id == IdentOf(before, k) IN
          (/\ Len(id) > Len(n)
           /\ ToLowercase(SubSeq(id, 1, Len(n))) = ToLowercase(n))
          => IdentOf(after, k) = id

C1_PrefixSafety == [][BindingApplied => PrefixSafe(sql, sql', AppliedName)]_vars

\* replace_params, applying `p` as the second binding, has rewritten `@p`
\* and left `@p1` alone in `@p,@p1`.
C1_Witness ==
    /\ mode = "scan"
    /\ names = << <<"P", "1">>, <<"p">> >>
    /\ orig = <<"@", "p", ",", "@", "p", "1">>
    /\ sql = <<"@", "p", "2", ",", "@", "p", "1">>

(***************************************************************************)
(* C2  replace_params rewrites every occurrence of the placeholder whose   *)
(* full name equals the bound name: whenever a replace_params call applies *)
(* the name n, every '@' that starts a token and whose collected name is n *)
(* carries the replacement afterwards.                                     *)
(***************************************************************************)
C2_EveryOccurrenceRewritten ==
    [][(mode = "scan" /\ BindingApplied) =>
         /\ NumAt(sql') = NumAt(sql)
         /\ \A k \in 1..NumAt(sql) :
               (StartsToken(sql, k) /\ TokenOf(sql, k) = AppliedName)
               => TokenOf(sql', k) = ScanMarker(AppliedPos)]_vars

(***************************************************************************)
(* C3  Case-insensitive comparison.  Whenever a rewriter applies the name  *)
(* n, every '@' that starts a token and whose collected name equals n with *)
(* letter case ignored carries the marker of n's position afterwards.      *)
(***************************************************************************)
C3_CaseInsensitive ==
    [][BindingApplied =>
         /\ NumAt(sql') = NumAt(sql)
         /\ \A k \in 1..NumAt(sql) :
               (/\ StartsToken(sql, k)
                /\ ToLowercase(TokenOf(sql, k)) = ToLowercase(AppliedName))
               => TokenOf(sql', k) = MarkerName(AppliedPos)]_vars

(***************************************************************************)
(* C4  Injectivity.  After the bindings of a statement have been applied   *)
(* one after the other, two placeholders of the original text that name    *)
(* two distinct bound names (distinct also with letter case ignored) carry *)
(* distinct markers, and two placeholders that name the same bound name    *)
(* carry the same marker.                                                  *)
(***************************************************************************)
NamesBound(text, k) == StartsToken(text, k) /\ TokenOf(text, k) \in Range(names)

C4_Injective ==
    /\ NumAt(sql) = NumAt(orig)
    /\ \A k1, k2 \in 1..NumAt(orig) :
          (NamesBound(orig, k1) /\ NamesBound(orig, k2)) =>
             /\ ToLowercase(TokenOf(orig, k1)) # ToLowercase(TokenOf(orig, k2))
                   => TokenOf(sql, k1) # TokenOf(sql, k2)
             /\ TokenOf(orig, k1) = TokenOf(orig, k2)
                   => TokenOf(sql, k1) = TokenOf(sql, k2)

(***************************************************************************)
(* C5  Parameter list order equals positional marker order.  In the call   *)
(* the macro makes, every placeholder of the original text that names the  *)
(* binding at position N carries the marker numbered N, and position N of  *)
(* the parameter list handed to the driver holds that binding's value.     *)
(***************************************************************************)
C5_MarkerOrder ==
    driverCall.made =>
       /\ Len(driverCall.params) = Len(names)
       /\ NumAt(driverCall.sql) = NumAt(orig)
       /\ \A N \in 1..Len(names) :
             /\ driverCall.params[N].value = Some(BindingValue(names[N]))
             /\ \A k \in 1..NumAt(orig) :
                   (StartsToken(orig, k) /\ TokenOf(orig, k) = names[N])
                   => ToLowercase(TokenOf(driverCall.sql, k)) = <<"p">> \o FormatNat(N)

(***************************************************************************)
(* C6  A single bad row aborts the whole query.  When a query future has   *)
(* completed and the conversion of one of its rows failed, it completed    *)
(* with an error, delivered no rows and returned no handle; when it        *)
(* completed with rows, they are all the rows of the stream, in order.     *)
(***************************************************************************)
QueryCompleted == ops = <<>> /\ outcome.op = "query"

C6_BadRowAborts ==
    QueryCompleted =>
       /\ (\E i \in DOMAIN convCalls : ~convCalls[i].ok) =>
             /\ outcome.status = "err"
             /\ outcome.rows = <<>>
             /\ handles = {}
       /\ outcome.status = "ok" =>
             /\ \A i \in DOMAIN convCalls : convCalls[i].ok
             /\ outcome.rows = [i \in DOMAIN convCalls |-> convCalls[i].id]

\* A query failed on its second row after the first had been converted.
C6_Witness ==
    /\ QueryCompleted
    /\ outcome.status = "err"
    /\ outcome.error = ConvError(2)
    /\ Len(convCalls) = 2
    /\ convCalls[1].ok

(***************************************************************************)
(* C7  On the build that uses the gate, at most one driver handshake is in *)
(* progress at any time.                                                   *)
(***************************************************************************)
InHandshake == {p \in Callers : pc[p] = "handshake"}

C7_OneHandshake == platform = "windows" => Cardinality(InHandshake) <= 1

\* One caller is in its handshake while another waits for the gate.
C7_Witness ==
    /\ platform = "windows"
    /\ \E p, q \in Callers : pc[p] = "handshake" /\ pc[q] = "waiting"

(***************************************************************************)
(* C8  As claimed: the gate is held from before the hostname lookup until  *)
(* the handshake has completed, so a caller whose lookup or handshake is   *)
(* in progress holds the gate.                                             *)
(***************************************************************************)
C8_GateBeforeResolution ==
    platform = "windows" =>
       \A p \in Callers : pc[p] \in {"resolving", "handshake"} => gateOwner = p

(***************************************************************************)
(* C8 as amended: the gate is acquired after the hostname lookup and is    *)
(* released when the handshake completes; a caller holds the gate exactly  *)
(* while its driver handshake is in progress, and never during the lookup. *)
(***************************************************************************)
C8_GateAroundHandshake ==
    platform = "windows" =>
       \A p \in Callers :
          /\ gateOwner = p <=> pc[p] = "handshake"
          /\ pc[p] \in {"from_env", "connect", "resolving"} => gateOwner # p

\* A hostname lookup runs while another caller holds the gate, and a
\* caller whose handshake failed has given the gate back.
C8_Witness ==
    /\ platform = "windows"
    /\ \E p, q \in Callers :
          /\ pc[p] = "resolving"
          /\ pc[q] = "handshake"
          /\ gateOwner = q

(***************************************************************************)
(* C9  Ownership.  The handles held and the operations in flight on the    *)
(* physical connection number at most one together, and after a failed     *)
(* operation no handle exists.                                             *)
(***************************************************************************)
C9_OneOwner ==
    /\ Cardinality(handles) + Len(ops) <= 1
    /\ outcome.status = "err" => handles = {} /\ ops = <<>>

\* A commit is in flight on the transaction a first operation returned.
C9_Witness ==
    /\ ops = <<Op("commit", "Transaction")>>
    /\ handles = {}
    /\ outcome.op = "transaction"
    /\ outcome.status = "ok"

(***************************************************************************)
(* C10  A caller whose environment variable cannot be read or whose        *)
(* connection string cannot be normalised never waits for the gate, never  *)
(* holds it, never starts a handshake and never gets a Connection; its     *)
(* future completes with the error of the first failing step.              *)
(***************************************************************************)
NormalizeError(in) ==
    IF in.entry = "from_env" /\ ~in.env THEN "EnvVar"
    ELSE IF ~in.cs.parses THEN "ConnectionStringParse"
    ELSE IF in.cs.ds \in {"absent", "blank"} THEN "DataSourceNotSpecified"
    ELSE IF ~in.cs.resolves THEN "HostNotFound"
    ELSE IF ~in.cs.opts THEN "ConnectionStringParse"
    ELSE "none"

C10_NoConnectOnBadString ==
    \A p \in Callers :
       NormalizeError(input[p]) # "none" =>
          /\ pc[p] \notin {"waiting", "handshake"}
          /\ gateOwner # p
          /\ connResult[p].status # "ok"
          /\ pc[p] = "done" => connResult[p] = Failed(NormalizeError(input[p]))

\* A caller failed on the host lookup while another one connected.
C10_Witness ==
    \E p, q \in Callers :
       /\ ~input[p].cs.resolves
       /\ pc[p] = "done"
       /\ connResult[p] = Failed("HostNotFound")
       /\ connResult[q] = Connected

(***************************************************************************)
(* The scalar kinds of the encoder: the kind of a host scalar type, the    *)
(* kind a Parameter variant is the variant of, and the kind of the Rust    *)
(* type a parameter is bound as.                                           *)
(***************************************************************************)
KindOf(t) ==
    CASE t = "bool" -> "boolean"
      [] t = "i16" -> "int16"
      [] t = "i32" -> "int32"
      [] t = "i64" -> "int64"
      [] t = "f32" -> "float32"
      [] t = "f64" -> "float64"
      [] t = "Decimal" -> "decimal"
      [] t = "NaiveDate" -> "date"
      [] t = "NaiveDateTime" -> "datetime"
      [] t \in {"String", "&str", "str"} -> "text"
      [] t \in {"Uuid", "Guid"} -> "uniqueidentifier"

VariantKind(variant) ==
    CASE variant = "Bool" -> "boolean"
      [] variant = "I16" -> "int16"
      [] variant = "I32" -> "int32"
      [] variant = "I64" -> "int64"
      [] variant = "F32" -> "float32"
      [] variant = "F64" -> "float64"
      [] variant = "Decimal" -> "decimal"
      [] variant = "Date" -> "date"
      [] variant = "DateTime" -> "datetime"
      [] variant \in {"String", "StringCow"} -> "text"
      [] variant = "Uuid" -> "uniqueidentifier"
      [] variant = "Null" -> "null"

\* The step encodes a value.
Encodes == encIn'.n = encIn.n + 1

\* The parameters the step's encoding yields.
Encoded ==
    IF encIn'.api = "Params" THEN SubSeq(encOut', Len(encOut) + 1, Len(encOut'))
    ELSE encOut'

(***************************************************************************)
(* C11  Typed NULL: encoding Option<T>::None for a scalar type T yields    *)
(* exactly one parameter; it carries no value, its variant is the variant  *)
(* of T's kind, and the type it is bound as on the wire is of T's kind     *)
(* (never the generic Null variant, never the kind of another type).       *)
(***************************************************************************)
C11_TypedNull ==
    [][ (Encodes /\ encIn'.value.kind = "none" /\ encIn'.value.ty.parts[1].kind = "scalar")
        => /\ Len(Encoded) = 1
           /\ Encoded[1].value = None
           /\ VariantKind(Encoded[1].variant) = KindOf(encIn'.value.ty.parts[1].ty)
           /\ KindOf(ToSqlType(Encoded[1])) = KindOf(encIn'.value.ty.parts[1].ty) ]_vars

(***************************************************************************)
(* The decoders' vocabulary: a single column was decoded, and the column.  *)
(***************************************************************************)
DecodedColumn == decoded.api \in {"get", "from_column"} /\ decoded.idx < Len(row)

TheTarget == decoded.target[1]

TheColumn == row[decoded.idx + 1]

(***************************************************************************)
(* C12  Decoding a column as Option<T>: a NULL column decodes to None, a   *)
(* column holding a value of T's driver type decodes to Some, and a        *)
(* successful decoding is None only for a NULL column; the empty text is a *)
(* value, not NULL.                                                        *)
(***************************************************************************)
C12_NoneIffNull ==
    (DecodedColumn /\ TheTarget.kind = "option") =>
       /\ TheColumn.variant = "None" => decoded.res = Ok(NoneOf(TheTarget.parts[1]))
       /\ TheColumn.variant = DriverVariant(ScalarOf(TheTarget)) =>
             decoded.res.ok /\ decoded.res.val.kind = "some"
       /\ decoded.res.ok => (decoded.res.val.kind = "none" <=> TheColumn.variant = "None")

(***************************************************************************)
(* C13  Row::get::<T>(index) reports the first failing check: an index     *)
(* past the last column gives FieldNotFound(index); otherwise a column     *)
(* whose declared type name check_db_ty refuses gives FieldTypeMismatch    *)
(* and no value; otherwise a failing conversion gives a conversion error   *)
(* that carries the index.                                                 *)
(***************************************************************************)
C13_ValidationOrder ==
    decoded.api = "get" =>
       /\ decoded.idx >= Len(row) => decoded.res = Err("FieldNotFound", decoded.idx)
       /\ (decoded.idx < Len(row) /\ ~check_db_ty(TheTarget, TheColumn.ty)) =>
             decoded.res = Err("FieldTypeMismatch", decoded.idx)
       /\ (decoded.idx < Len(row) /\ check_db_ty(TheTarget, TheColumn.ty)
             /\ try_get(row, TheTarget, decoded.idx).r = "Err") =>
             decoded.res = Err("TiberiusField", decoded.idx)

(***************************************************************************)
(* C14  Decimal exactness: a decimal / numeric column decoded as Decimal   *)
(* or Option<Decimal> gives the column's own (unscaled value, scale), for  *)
(* every value of a DECIMAL(28,12) column, those whose unscaled value      *)
(* needs more than 64 bits included.                                       *)
(***************************************************************************)
PayloadOf(v) == IF v.kind = "some" THEN v.parts[1].val ELSE v.val

C14_DecimalExact ==
    (DecodedColumn /\ ScalarOf(TheTarget) = "Decimal" /\ TheColumn.variant = "Numeric") =>
       /\ decoded.res.ok
       /\ PayloadOf(decoded.res.val) = TheColumn.val

(***************************************************************************)
(* C15  GUID round trip: decoding maps the wire bytes [b0..b15] to the     *)
(* host bytes by the permutation [3,2,1,0,5,4,7,6,8,..,15], encoding       *)
(* applies its inverse, and a Uuid bound as a parameter and selected back  *)
(* decodes to the same Uuid, by Row::get and by FromColumn alike.          *)
(***************************************************************************)
GuidPermutation == <<3, 2, 1, 0, 5, 4, 7, 6, 8, 9, 10, 11, 12, 13, 14, 15>>

C15_GuidRoundTrip ==
    /\ guid # <<>> => \A i \in 1..16 : guid[GuidPermutation[i] + 1] = uuid[i]
    /\ (DecodedColumn /\ ScalarOf(TheTarget) = "Uuid" /\ TheColumn.variant = "Guid") =>
          /\ decoded.res.ok
          /\ \A i \in 1..16 :
                PayloadOf(decoded.res.val)[i] = TheColumn.val[GuidPermutation[i] + 1]
    /\ (guid # <<>> /\ DecodedColumn /\ ScalarOf(TheTarget) = "Uuid") =>
          /\ decoded.res.ok
          /\ PayloadOf(decoded.res.val) = uuid

\* The Uuid 00112233-4455-6677-8899-aabbccddeeff was bound, selected back
\* and decoded by Row::get.
C15_Witness ==
    /\ uuid = <<0, 17, 34, 51, 68, 85, 102, 119, 136, 153, 170, 187, 204, 221, 238, 255>>
    /\ guid = <<51, 34, 17, 0, 85, 68, 119, 102, 136, 153, 170, 187, 204, 221, 238, 255>>
    /\ decoded.api = "get"
    /\ decoded.res = Ok(Scalar("Uuid", uuid))

(***************************************************************************)
(* C16  Encoding is order-preserving: params appends to the output list,   *)
(* leaving what is already there as it is, the concatenation of the        *)
(* encodings of the value's parts (the components of a tuple from the left *)
(* to the right, the elements of a list in iteration order), nested values *)
(* included.                                                               *)
(***************************************************************************)
RECURSIVE Flattened(_)
RECURSIVE FlattenedParts(_, _)
\* The encodings of the parts of x, each computed on its own, concatenated.
Flattened(x) ==
    CASE x.kind = "scalar" -> Params(x, <<>>)
      [] x.kind \in {"none", "raw"} -> Params(x, <<>>)
      [] x.kind = "some" -> Flattened(x.parts[1])
      [] x.kind \in {"vec", "tuple"} -> FlattenedParts(x.parts, 1)

FlattenedParts(xs, i) ==
    IF i > Len(xs) THEN <<>> ELSE Flattened(xs[i]) \o FlattenedParts(xs, i + 1)

C16_OrderPreserving ==
    [][ (Encodes /\ encIn'.api = "Params")
        => /\ SubSeq(encOut', 1, Len(encOut)) = encOut
           /\ encOut' = encOut \o Flattened(encIn'.value) ]_vars

\* ((1, 2), 7i64) was encoded after (10, "t2") into the same list.
C16_Witness ==
    /\ encIn.n = 2
    /\ encIn.value = TupleOf(<<TupleOf(<<I32(1), I32(2)>>), Scalar("i64", <<7>>)>>)
    /\ Len(encOut) = 5
    /\ encOut[2].variant = "String"
    /\ encOut[3] = [variant |-> "I32", value |-> Some(<<1>>)]
    /\ encOut[4] = [variant |-> "I32", value |-> Some(<<2>>)]
    /\ encOut[5].variant = "I64"

(***************************************************************************)
(* C17  Scalars map one-to-one to a tagged variant: a scalar is encoded    *)
(* into one parameter of the variant of its own kind, a decimal into a     *)
(* decimal variant carrying its (unscaled value, scale), and no scalar of  *)
(* another kind is encoded into the same variant.                          *)
(***************************************************************************)
VariantOfType(api, t) == IF api = "Params" THEN ParamsVariant(t) ELSE ToParameterVariant(t)

C17_ScalarsOneToOne ==
    [][ (Encodes /\ encIn'.value.kind = "scalar")
        => LET t == encIn'.value.ty.ty
           IN /\ Len(Encoded) = 1
              /\ VariantKind(Encoded[1].variant) = KindOf(t)
              /\ t = "Decimal" => Encoded[1].value = Some(encIn'.value.val)
              /\ \A t2 \in ScalarTypes :
                    KindOf(t2) # KindOf(t) =>
                       VariantOfType(encIn'.api, t2) # Encoded[1].variant ]_vars

(***************************************************************************)
(* C18  Decoding a row into an n-tuple decodes the columns 0 .. n-1 in     *)
(* increasing order and fails fast: when a column fails, the result is the *)
(* error of the failing column of lowest index and Row::get was called for *)
(* the columns up to that one only; the tuple, made of the n values in     *)
(* order, is produced only when every column decodes.                      *)
(***************************************************************************)
FailingColumns ==
    { i \in 0..(Len(decoded.target) - 1) : ~RowGet(row, decoded.target[i + 1], i).ok }

LowestFailing == CHOOSE k \in FailingColumns : \A j \in FailingColumns : k <= j

C18_TupleFailFast ==
    decoded.api = "from_row" =>
       LET n == Len(decoded.target)
       IN IF FailingColumns = {}
          THEN /\ decoded.res.ok
               /\ decoded.res.val.kind = "tuple"
               /\ Len(decoded.res.val.parts) = n
               /\ \A i \in 1..n :
                     decoded.res.val.parts[i] = RowGet(row, decoded.target[i], i - 1).val
               /\ getCalls = [i \in 1..n |-> i - 1]
          ELSE /\ ~decoded.res.ok
               /\ decoded.res = RowGet(row, decoded.target[LowestFailing + 1], LowestFailing)
               /\ decoded.res.idx = LowestFailing
               /\ getCalls = [i \in 1..(LowestFailing + 1) |-> i - 1]

\* (i32, i32, i32) decoded from (7, 't2', NULL): column 1 fails, column 2,
\* which would fail too, is not decoded.
C18_Witness ==
    /\ decoded.api = "from_row"
    /\ decoded.target = << ScalarTy("i32"), ScalarTy("i32"), ScalarTy("i32") >>
    /\ Len(row) = 3
    /\ FailingColumns = {1, 2}
    /\ decoded.res = Err("TiberiusField", 1)
    /\ getCalls = <<0, 1>>

(***************************************************************************)
(* C19  adjust_conn_str of a connection string that parses and whose data  *)
(* source / server key is absent, or has a value that is blank once        *)
(* trimmed, fails with the data-source-not-specified error, hands no host  *)
(* name to the lookup and returns no normalised string.                    *)
(***************************************************************************)
RECURSIVE TrimStart(_)
TrimStart(s) == IF s # <<>> /\ s[1] = " " THEN TrimStart(Tail(s)) ELSE s

RECURSIVE TrimEnd(_)
TrimEnd(s) ==
    IF s # <<>> /\ s[Len(s)] = " " THEN TrimEnd(SubSeq(s, 1, Len(s) - 1)) ELSE s

Trim(s) == TrimEnd(TrimStart(s))

DataSourceMissing(conn) ==
    conn.data_source = None \/ Trim(conn.data_source[1]) = <<>>

C19_DataSourceNotSpecified ==
    (resolved.entry = "adjust_conn_str" /\ connIn.conn.parses /\ DataSourceMissing(connIn.conn))
       => /\ ~resolved.ok
          /\ resolved.err = "DataSourceNotSpecified"
          /\ lookups = <<>>
          /\ resolved.out = <<>>

\* adjust_conn_str was called with a data source of two spaces.
C19_Witness ==
    /\ resolved.entry = "adjust_conn_str"
    /\ connIn.conn.data_source = Some(<<" ", " ">>)
    /\ resolved.err = "DataSourceNotSpecified"
    /\ lookups = <<>>

(***************************************************************************)
(* C20  For a datasource [tcp:]host[\instance][,port] (the prefix in any   *)
(* letter case, a port being a non-empty text) whose host resolves,        *)
(* resolve_datasource_into_ip returns "tcp:" + the IP literal of an        *)
(* address of the host + the instance suffix as written + "," and the port *)
(* as written; the host looked up is the text between the prefix and the   *)
(* first '\' or ',', "." standing for localhost, and the host part of the  *)
(* result is a numeric IP literal, never the host name.                    *)
(***************************************************************************)
IsIpv6Text(t) ==
    /\ \E i \in 1..Len(t) : t[i] = ":"
    /\ \A i \in 1..Len(t) : t[i] = ":" \/ \E d \in 1..16 : HexChar[d] = t[i]

IsIpLiteral(t) == ParseIpv4(t) # None \/ IsIpv6Text(t)

TheDatasource == connIn.conn.data_source[1]

\* The datasource the call returned: the result of
\* resolve_datasource_into_ip, or the server value of adjust_conn_str.
ResolvedDatasource ==
    IF resolved.entry = "adjust_conn_str" THEN resolved.out[1].value ELSE resolved.text

HostLookedUp(h) == IF h = <<".">> THEN Localhost ELSE h

FirstOfFamily(addrs, v) ==
    addrs[CHOOSE i \in 1..Len(addrs) :
             addrs[i].v = v /\ \A j \in 1..(i - 1) : addrs[j].v # v]

HasFamily(addrs, v) == \E i \in 1..Len(addrs) : addrs[i].v = v

C21_FirstIpv4ThenFirstIpv6 ==
    (resolved.entry = "resolve" /\ IsLookedUp(lookups[1]) /\ dns.ok) =>
       IF HasFamily(dns.addrs, 4)
       THEN resolved.ok /\ resolved.text = IpToString(FirstOfFamily(dns.addrs, 4))
       ELSE IF HasFamily(dns.addrs, 6)
       THEN resolved.ok /\ resolved.text = IpToString(FirstOfFamily(dns.addrs, 6))
       ELSE ~resolved.ok /\ resolved.err = "HostNotFound"

(***************************************************************************)
(* C22  As stated: a datasource whose host is a numeric IP literal comes   *)
(* out of the datasource resolution equal to the input text.               *)
(***************************************************************************)
NumericHosts == { h \in Hosts : ParseIpv4(h) # None }

HasNumericHost ==
    \E p \in Prefixes, h \in NumericHosts, i \in Instances, q \in Ports :
       TheDatasource = p \o h \o i \o q

KeysOf(out) == [k \in 1..Len(out) |-> out[k].key]

CountKey(out, key) == Cardinality({k \in 1..Len(out) : out[k].key = key})

TrustEmitted(out) ==
    /\ CountKey(out, "trustservercertificate") = 1
    /\ \A k \in 1..Len(out) :
          out[k].key = "trustservercertificate" => out[k].value = TrueText

C23_TrustDefaultsToEnabled ==
    (resolved.entry = "adjust_conn_str" /\ resolved.ok) =>
       /\ connIn.conn.trust_server_certificate \in {"absent", "true"}
             => TrustEmitted(resolved.out)
       /\ connIn.conn.trust_server_certificate = "false"
             => CountKey(resolved.out, "trustservercertificate") = 0
       /\ connIn.conn.trust_server_certificate \in {"absent", "true", "false"}

\* A connection string with a database, integrated security and encrypt
\* but no trust-server-certificate key was normalised with the key added.
C23_Witness ==
    /\ resolved.entry = "adjust_conn_str"
    /\ resolved.ok
    /\ connIn.conn.trust_server_certificate = "absent"
    /\ connIn.conn.integrated_security = "true"
    /\ connIn.conn.encrypt = "true"
    /\ KeysOf(resolved.out) = <<"server", "database", "integratedsecurity",
                                "trustservercertificate", "encrypt">>

(***************************************************************************)
(* C24  One call of replace_params gives the text in which every recorded  *)
(* span is replaced at once: read from the left, the characters outside    *)
(* the spans are those of the input, in order, and each span is replaced   *)
(* by the replacement, whether it is longer or shorter than the name; the  *)
(* text before the first span and after the last one is kept, and a text   *)
(* with no recorded span comes back unchanged.                             *)
(***************************************************************************)
\* The input read from position i on, the spans from the k-th on replaced.
RECURSIVE SimultaneousFrom(_, _, _, _, _)
SimultaneousFrom(text, vec, r, i, k) ==
    IF i > Len(text) THEN <<>>
    ELSE IF k <= Len(vec) /\ vec[k][1] = i
         THEN r \o SimultaneousFrom(text, vec, r, vec[k][2] + 1, k + 1)
         ELSE <<text[i]>> \o SimultaneousFrom(text, vec, r, i + 1, k)

C24_SpansAppliedSimultaneously ==
    (mode = "splice" /\ names # <<>>) =>
       LET vec == ScanSpans(orig, names[1])
           r == vals[1]
           first == vec[1][1]
           tail == Len(orig) - vec[Len(vec)][2]
       IN /\ sql = SimultaneousFrom(orig, vec, r, 1, 1)
          /\ vec = <<>> => sql = orig
          /\ vec # <<>> =>
                /\ SubSeq(sql, 1, first - 1) = SubSeq(orig, 1, first - 1)
                /\ SubSeq(sql, Len(sql) - tail + 1, Len(sql))
                      = SubSeq(orig, Len(orig) - tail + 1, Len(orig))
                /\ Len(sql) = Len(orig) + Len(vec) * (Len(r) - Len(names[1]))

\* "@p,@P" with p replaced by the longer "x@p" became "@x@p,@x@p".
C24_Witness ==
    /\ mode = "splice"
    /\ orig = <<"@", "p", ",", "@", "P">>
    /\ names = << <<"p">> >>
    /\ vals = << <<"x", "@", "p">> >>
    /\ sql = <<"@", "x", "@", "p", ",", "@", "x", "@", "p">>

(***************************************************************************)
(* Vocabulary of the stream adapter properties: the rows of the driver's   *)
(* stream are numbered from 1 in stream order.                             *)
(***************************************************************************)
QueryInFlight == ops # <<>> /\ ops[1].kind = "query"

RowCount(evs) == Cardinality({i \in 1..Len(evs) : evs[i].t = "Next"})

\* The rows of the stream whose conversion fails.
FailingRows(evs) == {i \in 1..Len(evs) : evs[i].t = "Next" /\ ~evs[i].ok}

FirstFailingRow(evs) == CHOOSE i \in FailingRows(evs) : \A j \in FailingRows(evs) : i <= j

\* The events of the stream read so far.
EventsRead == Len(driverRows) - Len(stream)

IdsUpTo(n) == [i \in 1..n |-> i]

(***************************************************************************)
(* C25  map_result_exhaust exhausts the stream before failing: while a     *)
(* conversion error is pending the rows read so far may be many but the    *)
(* items emitted are only the rows before the failing one, the query has   *)
(* not completed as long as events remain unread, and a query that         *)
(* completed with a conversion error had read every row and the Done event *)
(* of the driver's stream.                                                 *)
(***************************************************************************)
C25_ExhaustBeforeFailing ==
    /\ (QueryInFlight /\ err # NoErr) =>
          /\ err.kind = "conv"
          /\ items = IdsUpTo(err.id - 1)
          /\ EventsRead >= err.id
          /\ stream # <<>>
    /\ (QueryCompleted /\ outcome.error.kind = "conv") =>
          /\ stream = <<>>
          /\ driverRows[Len(driverRows)] = DoneEv
          /\ EventsRead = RowCount(driverRows) + 1

\* The first of three rows failed; the query completed with its error after
\* the two other rows and Done had been read.
C25_Witness ==
    /\ QueryCompleted
    /\ outcome.error = ConvError(1)
    /\ driverRows = <<NextEv(1, FALSE), NextEv(2, TRUE), NextEv(3, TRUE), DoneEv>>
    /\ stream = <<>>
    /\ convCalls = << [id |-> 1, ok |-> FALSE] >>

(***************************************************************************)
(* C26  The conversion function is invoked on the rows of the stream in    *)
(* order, up to and including the first row whose conversion fails and on  *)
(* no row after it; the error pending, and the error a query completes     *)
(* with when a conversion failed, is that of the first failing row in      *)
(* stream order, however many later rows would fail as well.               *)
(***************************************************************************)
\* The rows among the events read so far.
RowsRead == RowCount(SubSeq(driverRows, 1, EventsRead))

FailedSoFar == FailingRows(SubSeq(driverRows, 1, EventsRead))

C26_FirstFailureReported ==
    /\ \A i \in DOMAIN convCalls :
          convCalls[i] = [id |-> i, ok |-> driverRows[i].ok]
    /\ FailedSoFar = {} => Len(convCalls) = RowsRead
    /\ FailedSoFar # {} =>
          /\ Len(convCalls) = FirstFailingRow(driverRows)
          /\ QueryInFlight => err = ConvError(FirstFailingRow(driverRows))
    /\ (QueryCompleted /\ outcome.error.kind = "conv") =>
          outcome.error = ConvError(FirstFailingRow(driverRows))

\* The second and the third of three rows fail; the query completed with
\* the error of the second and the third was never converted.
C26_Witness ==
    /\ QueryCompleted
    /\ driverRows = <<NextEv(1, TRUE), NextEv(2, FALSE), NextEv(3, FALSE), DoneEv>>
    /\ outcome.error = ConvError(2)
    /\ convCalls = << [id |-> 1, ok |-> TRUE], [id |-> 2, ok |-> FALSE] >>

(***************************************************************************)
(* C27  A query whose driver stream fails completes with the stream's      *)
(* error in the poll that reads the failure, also when the conversion of   *)
(* an earlier row failed: the pending conversion error is not the one      *)
(* reported.  A query none of whose rows fails conversion completes at     *)
(* Done, with every row of the stream in stream order and the handle of    *)
(* the underlying connection.  No query stays in flight once the last      *)
(* event of its stream has been read.                                      *)
(***************************************************************************)
LastEvent == driverRows[Len(driverRows)]

C27_StreamErrorPropagated ==
    /\ QueryInFlight => stream # <<>>
    /\ (QueryCompleted /\ LastEvent = ErrorEv) =>
          /\ outcome.status = "err"
          /\ outcome.error = StreamError
          /\ outcome.rows = <<>>
          /\ stream = <<>>
    /\ (QueryCompleted /\ LastEvent = DoneEv /\ FailingRows(driverRows) = {}) =>
          /\ outcome.status = "ok"
          /\ outcome.rows = IdsUpTo(RowCount(driverRows))
          /\ outcome.handle \in handles
          /\ stream = <<>>

\* The conversion of the first row failed, the second row was skipped and
\* the stream then failed: the query completed with the stream's error
\* while the conversion error was still stored.
C27_Witness ==
    /\ QueryCompleted
    /\ driverRows = <<NextEv(1, FALSE), NextEv(2, TRUE), ErrorEv>>
    /\ outcome.error = StreamError
    /\ err = ConvError(1)
    /\ stream = <<>>

(***************************************************************************)
(* C28  Every caller that holds the gate eventually releases it, whether   *)
(* its handshake succeeds or fails, and, each handshake terminating, every *)
(* caller waiting for the gate eventually acquires it: a failed connect    *)
(* does not keep the gate.                                                 *)
(***************************************************************************)
C28_GateEventuallyReleased ==
    \A p \in Callers :
       /\ (gateOwner = p) ~> (gateOwner # p /\ pc[p] = "done")
       /\ (pc[p] = "waiting") ~> (gateOwner = p)

\* The first caller's handshake failed and the second caller now holds the
\* gate for its own handshake.
C28_Witness ==
    /\ platform = "windows"
    /\ connResult[1] = Failed("Driver")
    /\ gateOwner = 2
    /\ pc[2] = "handshake"

(***************************************************************************)
(* C29  For a type T without a sequence in it (a scalar, a raw Parameter,  *)
(* the unit, an Option or a tuple of these), encoding Option<T>::None      *)
(* appends as many parameters, of the same variants in the same positions, *)
(* as encoding Some(v) does, so that the parameters that follow keep their *)
(* positions whether the value is present or not.                          *)
(***************************************************************************)
RECURSIVE NoSequenceIn(_)
NoSequenceIn(T) ==
    /\ T.kind # "vec"
    /\ \A k \in 1..Len(T.parts) : NoSequenceIn(T.parts[k])

VariantsOf(ps) == [k \in 1..Len(ps) |-> ps[k].variant]

\* The values present of the type of the absent value x.
PresentValuesOf(x) == { y \in HostValues : y.kind = "some" /\ y.ty = x.ty }

C29_NoneKeepsPositions ==
    [][ (Encodes /\ encIn'.api = "Params" /\ encIn'.value.kind = "none"
            /\ NoSequenceIn(encIn'.value.ty))
        => \A y \in PresentValuesOf(encIn'.value) :
              VariantsOf(Encoded) = VariantsOf(Params(y, <<>>)) ]_vars

(***************************************************************************)
(* C30  replace_params rewrites an @name only when its '@' starts a token: *)
(* in a text every '@' of which is glued to a preceding alphanumeric       *)
(* character or belongs to a doubled '@', nothing is rewritten, whatever   *)
(* the bound name and the replacement.                                     *)
(***************************************************************************)
\* The '@' at position i does not start a token.
NotTokenStart(text, i) ==
    \/ i > 1 /\ IsAlphanumeric(text[i - 1])
    \/ i > 1 /\ text[i - 1] = "@"
    \/ i < Len(text) /\ text[i + 1] = "@"

C30_OnlyTokenStartRewritten ==
    (mode = "splice" /\ names # <<>>
        /\ \A i \in 1..Len(orig) : orig[i] = "@" => NotTokenStart(orig, i))
       => sql = orig

====
